---------------------------- MODULE Spec2Model ----------------------------
(***************************************************************************)
(* A model of dnsss: the adaptive DNS server-selection engine (the State   *)
(* classes of algs/base.py, algs/bind.py, algs/bmod.py, algs/ar1.py) and   *)
(* the query/retry loop of Resolver.query that drives it.                  *)
(*                                                                         *)
(* Response times are Python floats in the source.  The model computes     *)
(* with exact rationals <<n, d>> (d > 0, lowest terms), so every formula   *)
(* of the source is evaluated as written, without rounding.                *)
(***************************************************************************)
EXTENDS Integers, Sequences, FiniteSets, TLC

(***************************************************************************)
(* Bounds of the model.                                                    *)
(***************************************************************************)
\* number of distinct server names in use
NumServers == 2
\* longest server list of a Config (Config.servers may repeat a server)
MaxCand == 2
\* largest Config.retries_max explored
MaxRetries == 3
\* queries one thread runs in the sequential specification
MaxQueries == 1
\* calls made on the State in the State specification
MaxOps == 2
\* longest server list handed to observe and ranked in the State
\* specification
MaxList == 3
\* largest Config.retries_max of the concurrent specification
MaxConcRetries == 0
\* calls made on the State in the AR-1 specification
MaxRun == 5

None == "None"

(***************************************************************************)
(* Exact rational arithmetic, standing for Python's float operators.       *)
(***************************************************************************)
RECURSIVE RGcd(_, _)
RGcd(x, y) == IF y = 0 THEN x ELSE RGcd(y, x % y)

RAbsInt(x) == IF x < 0 THEN -x ELSE x

RNormK(n, d, k) == <<n \div k, d \div k>>
RNorm(n, d) == RNormK(n, d, RGcd(RAbsInt(n), d))

RInt(i) == <<i, 1>>
RZero == <<0, 1>>
ROne == <<1, 1>>

RLcm(x, y) == (x \div RGcd(x, y)) * y

RAddM(p, q, m) == RNorm(p[1] * (m \div p[2]) + q[1] * (m \div q[2]), m)
RAdd(p, q) == RAddM(p, q, RLcm(p[2], q[2]))

RNeg(p) == <<-p[1], p[2]>>
RSub(p, q) == RAdd(p, RNeg(q))

RMulK(p, q, k1, k2) ==
    RNorm((p[1] \div k1) * (q[1] \div k2), (p[2] \div k2) * (q[2] \div k1))
RMul(p, q) == RMulK(p, q, RGcd(RAbsInt(p[1]), q[2]), RGcd(RAbsInt(q[1]), p[2]))

\* p / q for q # 0 (the callers test q = 0 first: Python raises ZeroDivisionError)
RDiv(p, q) ==
    RMul(p, IF q[1] > 0 THEN <<q[2], q[1]>> ELSE <<-q[2], -q[1]>>)

RLt(p, q) == p[1] * q[2] < q[1] * p[2]
RLe(p, q) == p[1] * q[2] <= q[1] * p[2]
RMax(p, q) == IF RLt(p, q) THEN q ELSE p
RMin(p, q) == IF RLt(q, p) THEN q ELSE p
RSq(p) == RMul(p, p)

RECURSIVE RPow(_, _)
RPow(p, k) == IF k = 0 THEN ROne ELSE RMul(p, RPow(p, k - 1))

(***************************************************************************)
(* Servers and the other input domains.                                    *)
(***************************************************************************)
ServerNames == <<"S1", "S2", "S3", "S4">>
Servers == {ServerNames[i] : i \in 1..NumServers}

\* Rcode values the backends can answer with (models.py Rcode); SERVFAIL is
\* the only one query treats specially.
Rcodes == {"NOERROR", "NXDOMAIN", "REFUSED", "SERVFAIL"}

\* observed response times (seconds, as rationals)
Rtimes == {RInt(1), RInt(2)}

Algs == {"base", "bind", "bmod", "ar1"}

\* non-empty server lists of length at most n, repetitions allowed
ServerLists(n) == UNION {[1..k -> Servers] : k \in 1..n}

(***************************************************************************)
(* Params (bind.Params, ar1.Params).  The values are a valid configuration *)
(* chosen so that the AR-1 thresholds are reached within the bounds.       *)
(***************************************************************************)
Params ==
    [a |-> <<1, 2>>, g |-> <<1, 2>>,
     p_count_min |-> 2,
     alpha_min |-> <<1, 10>>, alpha_max |-> <<9, 10>>,
     idle_max |-> 2,
     drc_count_min |-> 2, drc_consec |-> 2, drc_stdev_co |-> 2]

(***************************************************************************)
(* Online estimators (models.py).  An operator named X2, X3 is the rest of *)
(* the method X after its first statements.                                *)
(***************************************************************************)
RunningMean == [count |-> 0, mean |-> RZero]

\* RunningMean.observe
RunningMean_observe(m, value) ==
    [m EXCEPT !.count = @ + 1,
              !.mean = RAdd(@, RDiv(RSub(value, @), RInt(m.count + 1)))]

\* RunningVariance.observe from "if self.count > 1:", dm2 the new delta_m2.
\* stdev = sqrt(variance) is irrational in general: the model keeps stdev2,
\* the square of stdev, and compares squares where the source compares stdev.
RunningVariance_observe3(w, dm2) ==
    IF w.count > 1
    THEN [w EXCEPT !.delta_m2 = dm2,
                   !.variance = RDiv(dm2, RInt(w.count - 1)),
                   !.stdev2 = RDiv(dm2, RInt(w.count - 1))]
    ELSE [w EXCEPT !.delta_m2 = dm2]

\* the field defaults of RunningVariance (and of RunningMean)
RunningVariance ==
    [count |-> 0, mean |-> RZero, delta_m2 |-> RZero, variance |-> RZero,
     stdev2 |-> RZero]

\* an update that squares the distance from the old mean
RunningVariance_observe2_naive(v, w, value) ==
    RunningVariance_observe3(w,
        RAdd(v.delta_m2, RMul(RSub(value, v.mean), RSub(value, v.mean))))

\* RunningVariance.observe after super().observe(value), which gave w:
\* delta_m2 += delta1 * delta2
RunningVariance_observe2(v, w, value) ==
    RunningVariance_observe3(w,
        RAdd(v.delta_m2, RMul(RSub(value, v.mean), RSub(value, w.mean))))

\* RunningVariance.observe, on a record that has the RunningVariance fields
RunningVariance_observe(v, value) ==
    RunningVariance_observe2(v, RunningMean_observe(v, value), value)

(***************************************************************************)
(* ARStats (algs/ar1.py).                                                  *)
(***************************************************************************)
\* the field defaults of ARStats (and of RunningVariance, RunningMean).
\* params names the Params object the ARStats refers to: "default" is the
\* object default_factory=Params makes, "state" the one the State holds.
ARStats ==
    [count |-> 0, mean |-> RZero, delta_m2 |-> RZero, variance |-> RZero,
     stdev2 |-> RZero, P |-> RZero, alpha |-> RZero, latest |-> RZero,
     mean_xy |-> RZero, mean_v2 |-> RZero, idle |-> 0, drc |-> 0,
     params |-> "default"]

\* ARStats.reset: every dumped field back to its default (params is not
\* dumped and stays), then alpha = alpha_min
ARStats_reset(ar) ==
    [ARStats EXCEPT !.alpha = Params.alpha_min, !.params = ar.params]

\* the deviation test of ARStats.observe,
\*     abs(rtime - self.mean) > self.stdev * params.drc_stdev_co,
\* on squares (both sides are non-negative)
ARStats_deviant(ar, rtime) ==
    RLt(RMul(ar.stdev2, RInt(Params.drc_stdev_co * Params.drc_stdev_co)),
        RSq(RSub(rtime, ar.mean)))

\* a reset test that does not look at drc
ARStats_drc2_count_only(ar, d) ==
    IF ar.count >= Params.drc_count_min
    THEN ARStats_reset(ar)
    ELSE [ar EXCEPT !.drc = d]

\* ARStats.observe: the reset test, once drc has its new value d
ARStats_drc2(ar, d) ==
    IF d >= Params.drc_consec /\ ar.count >= Params.drc_count_min
    THEN ARStats_reset(ar)
    ELSE [ar EXCEPT !.drc = d]

\* the deviation reset counter block of ARStats.observe (if self.count: ...)
ARStats_drc(ar, rtime) ==
    IF ar.count = 0 THEN ar
    ELSE ARStats_drc2(ar, IF ARStats_deviant(ar, rtime) THEN ar.drc + 1 ELSE 0)

\* an alpha that is not normalized
ARStats_noclamp(x) == x

\* the clamp of alpha: max(alpha_min, min(alpha_max, alpha))
ARStats_clamp(x) == RMax(Params.alpha_min, RMin(Params.alpha_max, x))

\* ARStats.observe from "mean2 = self.mean**2".  The result is [raised, ar]:
\* the division that computes alpha raises ZeroDivisionError when
\* mean_v2 = mean**2, and the fields assigned before it keep their values.
ARStats_alpha(e, rtime, mean2) ==
    IF e.mean_v2 = mean2
    THEN [raised |-> TRUE, ar |-> e]
    ELSE [raised |-> FALSE,
          ar |-> [e EXCEPT
                    !.alpha = ARStats_clamp(RDiv(RSub(e.mean_xy, mean2),
                                                 RSub(e.mean_v2, mean2))),
                    !.latest = rtime, !.idle = 0]]

\* ARStats.observe from "if self.count > 1:"
ARStats_observe3(d, rtime) ==
    IF d.count > 1
    THEN ARStats_alpha(
            [d EXCEPT !.mean_xy =
                RAdd(@, RDiv(RMul(d.latest, rtime), RInt(d.count - 1)))],
            rtime, RSq(d.mean))
    ELSE [raised |-> FALSE, ar |-> [d EXCEPT !.latest = rtime, !.idle = 0]]

\* ARStats.observe from "self.mean_v2 += ..."
ARStats_observe2(c, rtime) ==
    ARStats_observe3(
        [c EXCEPT !.mean_v2 = RAdd(@, RDiv(RSub(RSq(rtime), @), RInt(c.count)))],
        rtime)

\* ARStats.observe
ARStats_observe(ar, rtime) ==
    ARStats_observe2(RunningVariance_observe(ARStats_drc(ar, rtime), rtime), rtime)

\* ARStats.predict, atok = alpha ** (idle + 1)
ARStats_predict2(ar, atok) ==
    [ar EXCEPT !.P = RAdd(RMul(atok, ar.latest), RMul(RSub(ROne, atok), ar.mean))]

ARStats_predict(ar) == ARStats_predict2(ar, RPow(ar.alpha, ar.idle + 1))

(***************************************************************************)
(* State (algs/base.py, bind.py, bmod.py, ar1.py).  One record stands for  *)
(* the State object of any algorithm; a per-server map the algorithm does  *)
(* not have stays empty.                                                   *)
(***************************************************************************)
Ext(f, k, v) == [x \in (DOMAIN f) \cup {k} |-> IF x = k THEN v ELSE f[x]]

EmptyState ==
    [count |-> 0, mean |-> RZero,
     SM |-> <<>>, SR |-> <<>>, SRM |-> <<>>, SAR |-> <<>>]

HasSR(alg) == alg \in {"bind", "bmod", "ar1"}
HasSRM(alg) == alg = "bmod"
HasSAR(alg) == alg = "ar1"

\* an add that gives the server default entries whether it has some or not
add_fresh(alg, st, server) ==
    [st EXCEPT
        !.SM = Ext(@, server, RunningMean),
        !.SR = IF ~HasSR(alg) THEN @ ELSE Ext(@, server, RZero),
        !.SRM = IF ~HasSRM(alg) THEN @ ELSE Ext(@, server, RZero),
        !.SAR = IF ~HasSAR(alg) THEN @
                ELSE Ext(@, server,
                         ARStats_reset([ARStats EXCEPT !.params = "state"]))]

\* State.add of the algorithm's class, with its super() calls
add(alg, st, server) ==
    [st EXCEPT
        !.SM = IF server \in DOMAIN st.SM THEN @ ELSE Ext(@, server, RunningMean),
        !.SR = IF ~HasSR(alg) \/ server \in DOMAIN st.SR THEN @
               ELSE Ext(@, server, RZero),
        !.SRM = IF ~HasSRM(alg) \/ server \in DOMAIN st.SRM THEN @
                ELSE Ext(@, server, RZero),
        !.SAR = IF ~HasSAR(alg) THEN @
                ELSE IF server \in DOMAIN st.SAR
                THEN [@ EXCEPT ![server].params = "state"]
                ELSE Ext(@, server,
                         ARStats_reset([ARStats EXCEPT !.params = "state"]))]

RECURSIVE addAll(_, _, _)
addAll(alg, st, servers) ==
    IF servers = <<>> THEN st
    ELSE addAll(alg, add(alg, st, Head(servers)), Tail(servers))

\* base State.observe, first statement: self.SM[server].observe(rtime)
observe_SM(st, server, rtime) ==
    [st EXCEPT !.SM[server] = RunningMean_observe(@, rtime)]

\* the global RunningMean of the State with its fields replaced by m's
observe_global2(st, m) == [st EXCEPT !.count = m.count, !.mean = m.mean]

\* base State.observe, second statement: super().observe(rtime), the
\* RunningMean over all response times
observe_global(st, rtime) ==
    observe_global2(st,
        RunningMean_observe([count |-> st.count, mean |-> st.mean], rtime))

\* base State.observe
base_observe(st, server, rtime) ==
    observe_global(observe_SM(st, server, rtime), rtime)

\* bind State.observe: a = Ri and self.params.a
bind_a(Ri) == IF Ri = RZero THEN RZero ELSE Params.a

\* an observe that leaves the value of the servers not selected as it is
bind_r_keep(Si, Ri, server, rtime) ==
    IF Si = server
    THEN RAdd(RMul(bind_a(Ri), Ri), RMul(RSub(ROne, bind_a(Ri)), rtime))
    ELSE Ri

\* bind State.observe, the new value r for one Si of the loop, from the
\* value Ri read from SR[Si]
bind_r(Si, Ri, server, rtime) ==
    IF Si = server
    THEN RAdd(RMul(bind_a(Ri), Ri), RMul(RSub(ROne, bind_a(Ri)), rtime))
    ELSE RMul(Params.g, Ri)

\* bind State.observe, one iteration of "for Si in servers"
bind_step(st, Si, server, rtime) ==
    [st EXCEPT !.SR[Si] = bind_r(Si, @, server, rtime)]

\* a loop that discounts every server of the State, candidate or not
bind_loop_every(st, servers, server, rtime) ==
    [st EXCEPT !.SR = [s \in DOMAIN @ |-> bind_r(s, @[s], server, rtime)]]

RECURSIVE bind_loop(_, _, _, _)
bind_loop(st, servers, server, rtime) ==
    IF servers = <<>> THEN st
    ELSE bind_loop(bind_step(st, Head(servers), server, rtime),
                   Tail(servers), server, rtime)

\* bind State.observe
bind_observe(st, server, rtime, servers) ==
    bind_loop(base_observe(st, server, rtime), servers, server, rtime)

\* bmod State.observe, the new SRM[server] from the value read:
\* a = self.SRM[server] and self.params.a; a * SRM + (1 - a) * rtime
bmod_srm(srm, rtime) ==
    RAdd(RMul(bind_a(srm), srm), RMul(RSub(ROne, bind_a(srm)), rtime))

\* a bmod observe that leaves SR[server] as bind computed it
bmod_sr_skip(st, server) == st

\* bmod State.observe: self.SR[server] = max(self.SR[server], self.SRM[server])
bmod_sr(st, server) == [st EXCEPT !.SR[server] = RMax(@, st.SRM[server])]

\* bmod State.observe
bmod_observe(st, server, rtime, servers) ==
    bmod_sr([bind_observe(st, server, rtime, servers) EXCEPT
                !.SRM[server] = bmod_srm(@, rtime)],
            server)

\* a prediction computed whatever the sample count
ar1_predict_always(ar) == ARStats_predict(ar)

\* ar1 State.observe: "if ARi.count >= self.params.p_count_min: ARi.predict()"
ar1_predict(ar) ==
    IF ar.count >= Params.p_count_min THEN ARStats_predict(ar) ELSE ar

\* ar1 State.observe, one iteration of "for Si in servers" given the
\* outcome o of its first statement: [raised, st]
ar1_step2(st, Si, o) ==
    [raised |-> o.raised,
     st |-> [st EXCEPT !.SAR[Si] = IF o.raised THEN o.ar ELSE ar1_predict(o.ar)]]

\* ar1 State.observe, one iteration of "for Si in servers": [raised, st]
ar1_step(st, Si, server, rtime) ==
    ar1_step2(st, Si,
        IF Si = server THEN ARStats_observe(st.SAR[Si], rtime)
        ELSE [raised |-> FALSE, ar |-> [st.SAR[Si] EXCEPT !.idle = @ + 1]])

RECURSIVE ar1_loop(_, _, _, _)
RECURSIVE ar1_loop2(_, _, _, _)
ar1_loop2(o, servers, server, rtime) ==
    IF o.raised THEN o ELSE ar1_loop(o.st, Tail(servers), server, rtime)

ar1_loop(st, servers, server, rtime) ==
    IF servers = <<>> THEN [raised |-> FALSE, st |-> st]
    ELSE ar1_loop2(ar1_step(st, Head(servers), server, rtime),
                   servers, server, rtime)

\* ar1 State.observe
ar1_observe(st, server, rtime, servers) ==
    ar1_loop(bind_observe(st, server, rtime, servers), servers, server, rtime)

\* an observe that records only the answers that are not SERVFAIL
observe_answers_only(alg, st, server, rtime, code, servers) ==
    IF code = "SERVFAIL" THEN [raised |-> FALSE, st |-> st]
    ELSE CASE alg = "base" -> [raised |-> FALSE, st |-> base_observe(st, server, rtime)]
           [] alg = "bind" -> [raised |-> FALSE,
                               st |-> bind_observe(st, server, rtime, servers)]
           [] alg = "bmod" -> [raised |-> FALSE,
                               st |-> bmod_observe(st, server, rtime, servers)]
           [] alg = "ar1" -> ar1_observe(st, server, rtime, servers)

\* State.observe of the algorithm's class, run without interruption:
\* [raised, st].  The code argument is not read by any of the classes.
observe(alg, st, server, rtime, code, servers) ==
    CASE alg = "base" -> [raised |-> FALSE, st |-> base_observe(st, server, rtime)]
      [] alg = "bind" -> [raised |-> FALSE,
                          st |-> bind_observe(st, server, rtime, servers)]
      [] alg = "bmod" -> [raised |-> FALSE,
                          st |-> bmod_observe(st, server, rtime, servers)]
      [] alg = "ar1" -> ar1_observe(st, server, rtime, servers)

\* State.rank of bind (and bmod): SR[server]
bind_rank(st, server) == st.SR[server]

\* a rank that puts the idlest servers last
ar1_rank_idle_last(st, server) ==
    IF st.SAR[server].idle > Params.idle_max THEN RInt(st.SAR[server].idle)
    ELSE IF st.SAR[server].P # RZero THEN st.SAR[server].P
    ELSE bind_rank(st, server)

\* State.rank of ar1
ar1_rank(st, server) ==
    IF st.SAR[server].idle > Params.idle_max THEN RInt(-st.SAR[server].idle)
    ELSE IF st.SAR[server].P # RZero THEN st.SAR[server].P
    ELSE bind_rank(st, server)

\* State.rank of the algorithm's class; base draws random.random(), which
\* ranked models by allowing every order
rank(alg, st, server) ==
    IF alg = "ar1" THEN ar1_rank(st, server) ELSE bind_rank(st, server)

\* the orders random.shuffle can leave a list in
Bijections(n) ==
    {f \in [1..n -> 1..n] : \A i, j \in 1..n : i # j => f[i] # f[j]}

Shuffles(S) == {[i \in 1..Len(S) |-> S[f[i]]] : f \in Bijections(Len(S))}

\* the place of S[i] after a stable descending sort by the keys K
SortPos_desc(K, i) ==
    1 + Cardinality({j \in 1..Len(K) :
                        RLt(K[i], K[j]) \/ (K[j] = K[i] /\ j < i)})

\* the place of S[i] after a stable ascending sort by the keys K
SortPos(K, i) ==
    1 + Cardinality({j \in 1..Len(K) :
                        RLt(K[j], K[i]) \/ (K[j] = K[i] /\ j < i)})

\* list.sort(key=...): the stable ascending sort of S by the keys K
\* (K[i] is the key of S[i])
SortByKeys(S, K) ==
    [p \in 1..Len(S) |-> S[CHOOSE i \in 1..Len(S) : SortPos(K, i) = p]]

\* values random.random() can return (base State.rank)
Randoms == {RZero, <<1, 2>>}

\* the keys list.sort can compute for T: self.rank of every element, which
\* base draws at random once per element
RankKeys(alg, st, T) ==
    IF alg = "base" THEN [1..Len(T) -> Randoms]
    ELSE {[i \in 1..Len(T) |-> rank(alg, st, T[i])]}

\* servers.sort(key=self.rank): the lists it can leave for the shuffled T
sorted(alg, st, T) == {SortByKeys(T, K) : K \in RankKeys(alg, st, T)}

\* State.ranked: the lists it can return for the input list S
ranked(alg, st, S) == UNION {sorted(alg, st, T) : T \in Shuffles(S)}

\* State.ranked as its caller sees it: out is the returned list, keys the
\* rank list.sort computed for each element of out, and arg the caller's
\* list after the call, which "servers = list(servers)" keeps apart from
\* the list that is shuffled and sorted
ranked_call(alg, st, S) ==
    UNION {{[out |-> SortByKeys(T, K), keys |-> SortByKeys(K, K), arg |-> S] :
                K \in RankKeys(alg, st, T)} : T \in Shuffles(S)}

(***************************************************************************)
(* State.model_dump, model_validate and State.load (algs/base.py, ar1.py). *)
(* A snapshot is a function from field names to values; a field that the   *)
(* snapshot leaves out is not in its domain.                               *)
(***************************************************************************)
\* the fields of the algorithm's State class; params has exclude=True and
\* is in no dump
Fields(alg) ==
    {"count", "mean", "SM"}
        \cup (IF HasSR(alg) THEN {"SR"} ELSE {})
        \cup (IF HasSRM(alg) THEN {"SRM"} ELSE {})
        \cup (IF HasSAR(alg) THEN {"SAR"} ELSE {})

\* an ARStats dump that leaves mean out as well
ARStats_dump_without_mean(ar) ==
    [f \in (DOMAIN ar) \ {"params", "mean"} |-> ar[f]]

\* ARStats.model_dump(): every field but params
ARStats_dump(ar) == [f \in (DOMAIN ar) \ {"params"} |-> ar[f]]

\* one field of ARStats.model_validate(d): the snapshot's value, or the
\* field's default
ARStats_field(d, f) == IF f \in DOMAIN d THEN d[f] ELSE ARStats[f]

\* ARStats.model_validate(d)
ARStats_validate(d) ==
    [count |-> ARStats_field(d, "count"), mean |-> ARStats_field(d, "mean"),
     delta_m2 |-> ARStats_field(d, "delta_m2"),
     variance |-> ARStats_field(d, "variance"),
     stdev2 |-> ARStats_field(d, "stdev2"), P |-> ARStats_field(d, "P"),
     alpha |-> ARStats_field(d, "alpha"), latest |-> ARStats_field(d, "latest"),
     mean_xy |-> ARStats_field(d, "mean_xy"),
     mean_v2 |-> ARStats_field(d, "mean_v2"), idle |-> ARStats_field(d, "idle"),
     drc |-> ARStats_field(d, "drc"), params |-> ARStats_field(d, "params")]

\* State.model_dump(): every field of the class, the ARStats dumped in turn
model_dump(alg, st) ==
    [f \in Fields(alg) |->
        IF f = "SAR" THEN [s \in DOMAIN st.SAR |-> ARStats_dump(st.SAR[s])]
        ELSE st[f]]

\* one field of State.model_validate(data): the snapshot's value if the
\* class has the field and the snapshot gives it, else the field's default
State_field(alg, data, f) ==
    IF f \in Fields(alg) \cap DOMAIN data THEN data[f] ELSE EmptyState[f]

\* the SAR field of State.model_validate(data)
State_SAR(sar) ==
    IF DOMAIN sar = {} THEN <<>>
    ELSE [s \in DOMAIN sar |-> ARStats_validate(sar[s])]

\* State.model_validate(data)
model_validate(alg, data) ==
    [count |-> State_field(alg, data, "count"),
     mean |-> State_field(alg, data, "mean"),
     SM |-> State_field(alg, data, "SM"),
     SR |-> State_field(alg, data, "SR"),
     SRM |-> State_field(alg, data, "SRM"),
     SAR |-> State_SAR(State_field(alg, data, "SAR"))]

\* dict | dict: the keys of both, the right operand's value where both
\* have the key
Merge(f, g) ==
    [x \in (DOMAIN f) \cup (DOMAIN g) |-> IF x \in DOMAIN g THEN g[x] ELSE f[x]]

\* load: data = self.model_dump() | self.model_validate(data).model_dump()
load_merged(alg, st, data) ==
    Merge(model_dump(alg, st), model_dump(alg, model_validate(alg, data)))

\* one step of the setattr loop of load
load_attr(st, data, other, name) ==
    IF name \in DOMAIN data THEN other[name] ELSE st[name]

\* load: for name in data: setattr(self, name, getattr(other, name))
load_setattr(st, data, other) ==
    [count |-> load_attr(st, data, other, "count"),
     mean |-> load_attr(st, data, other, "mean"),
     SM |-> load_attr(st, data, other, "SM"),
     SR |-> load_attr(st, data, other, "SR"),
     SRM |-> load_attr(st, data, other, "SRM"),
     SAR |-> load_attr(st, data, other, "SAR")]

\* load: for Si in servers: self.add(Si), servers the keys SM had on entry
RECURSIVE load_add(_, _, _)
load_add2(alg, st, S, Si) == load_add(alg, add(alg, st, Si), S \ {Si})

load_add(alg, st, S) ==
    IF S = {} THEN st ELSE load_add2(alg, st, S, CHOOSE Si \in S : TRUE)

\* base State.load with the merged dict
base_load2(alg, st, data) ==
    load_add(alg, load_setattr(st, data, model_validate(alg, data)),
             DOMAIN st.SM)

\* base State.load(data)
base_load(alg, st, data) == base_load2(alg, st, load_merged(alg, st, data))

\* ar1 State.load after super().load(data): ARi.params = self.params for
\* every ARStats
ar1_rebind(st) ==
    IF DOMAIN st.SAR = {} THEN st
    ELSE [st EXCEPT !.SAR = [s \in DOMAIN @ |-> [@[s] EXCEPT !.params = "state"]]]

\* State.load(data) of the algorithm's class
load(alg, st, data) ==
    IF alg = "ar1" THEN ar1_rebind(base_load(alg, st, data))
    ELSE base_load(alg, st, data)

\* NonNegativeFloat
NonNegativeFloat(x) == RLe(RZero, x)

\* RunningMean.model_validate(m) accepts m
RunningMean_valid(m) == m.count >= 0 /\ NonNegativeFloat(m.mean)

\* ARStats.model_validate(d) accepts d: every field the snapshot gives is
\* non-negative
ARStats_valid(d) ==
    /\ \A f \in (DOMAIN d) \cap {"count", "idle", "drc"} : d[f] >= 0
    /\ \A f \in (DOMAIN d) \ {"count", "idle", "drc", "params"} :
          NonNegativeFloat(d[f])

\* the validation of one field of the State schema
Field_valid(data, f) ==
    CASE f = "count" -> data[f] >= 0
      [] f = "mean" -> NonNegativeFloat(data[f])
      [] f = "SM" -> \A s \in DOMAIN data[f] : RunningMean_valid(data[f][s])
      [] f = "SAR" -> \A s \in DOMAIN data[f] : ARStats_valid(data[f][s])
      [] OTHER -> \A s \in DOMAIN data[f] : NonNegativeFloat(data[f][s])

\* State.model_validate(data) returns: every field of the class that the
\* snapshot gives passes its validation (other keys are ignored)
State_valid(alg, data) ==
    \A f \in Fields(alg) \cap DOMAIN data : Field_valid(data, f)

\* a load that takes the snapshot without validating it
load_call_unchecked(alg, st, data) ==
    [raised |-> FALSE, st |-> load(alg, st, data)]

\* the call State.load(data): [raised, st].  model_validate(data) at the
\* first statement of load raises before anything is assigned.
load_call(alg, st, data) ==
    IF State_valid(alg, data) THEN [raised |-> FALSE, st |-> load(alg, st, data)]
    ELSE [raised |-> TRUE, st |-> st]

(***************************************************************************)
(* The program state.                                                      *)
(***************************************************************************)
VARIABLES
    alg,      \* which Resolver class of algs.registry is running
    config,   \* Resolver.config: [servers, retries_max]
    backend,  \* the backends behind the servers: the rcodes and the response
              \* times their answers can carry, [codes, rtimes]
    st,       \* Resolver.state, the State object shared by all threads
    lock,     \* State._lock, an RLock: [owner, depth]
    th,       \* per thread: its position in Resolver.query and its locals
    dump,     \* the State.model_dump() taken by save and what it raced, in
              \* a sequence that is empty before save ran
    last,     \* the last operation applied directly to the State with the
              \* state before it, in a sequence that is empty before any
              \* (State specification)
    nops,     \* number of calls made directly on the State
    sel,      \* the servers that were the selected server of an observe
              \* (State specification)
    cmd,      \* the ClientCommand object: anomalies, live and retired
              \* Resolvers and its loop threads (Command specification)
    rv        \* a RunningVariance object and the values it has observed
              \* (Variance specification)

vars == <<alg, config, backend, st, lock, th, dump, last, nops, sel, cmd, rv>>

\* no command is running and no RunningVariance is under observation
NoCommand == <<>>
NoVariance == <<>>

Threads == {"T1", "T2"}

\* Config values explored: Config.servers has min_length 1 and may repeat
\* a server; retries_max is a NonNegativeInt
Configs ==
    [servers : ServerLists(MaxCand), retries_max : 0..MaxRetries]

\* Resolver.model_post_init: state.add for every server of the Config
NewState(a, c) == addAll(a, EmptyState, c.servers)

FreeLock == [owner |-> None, depth |-> 0]

\* RLock.acquire by thread t, possible when the lock is free or t's own
CanAcquire(t) == lock.owner \in {None, t}
Acquired(t) == [owner |-> t, depth |-> lock.depth + 1]
\* RLock.release
Released ==
    IF lock.depth = 1 THEN FreeLock ELSE [lock EXCEPT !.depth = @ - 1]

\* The locals of a thread that is not inside query.  calls and nobs count
\* the backend calls and the state.observe calls of the query, log lists the
\* backend answers, obs the state.observe calls of all the thread's queries
\* so far; sawMid is the set of
\* threads whose observe was half done when this thread's ranked sorted.
IdleThread ==
    [pc |-> "idle", servers |-> <<>>, idx |-> 0, server |-> None,
     failed |-> <<>>, rep |-> None, Ri |-> None, k |-> 0,
     calls |-> 0, nobs |-> 0, log |-> <<>>, obs |-> <<>>, sawMid |-> {},
     resp |-> None, cause |-> None, queries |-> 0]

\* Resolver.select: no rule matches, so the default servers with tag DFLT
select(c) == [servers |-> c.servers, tag |-> "DFLT"]

(***************************************************************************)
(* Resolver.query (algs/base.py), one action per step of a thread.         *)
(***************************************************************************)
\* query is entered: select(q), failed = []
query_select(t) ==
    /\ th[t].pc \in {"idle", "returned", "raised"}
    /\ th[t].queries < MaxQueries
    /\ th' = [th EXCEPT ![t] =
                [IdleThread EXCEPT !.pc = "ranked",
                                   !.obs = th[t].obs,
                                   !.servers = select(config).servers,
                                   !.queries = th[t].queries + 1]]
    /\ UNCHANGED <<cmd, rv, alg, config, backend, st, lock, dump, last, nops, sel>>

\* State.ranked, up to "with self._lock": copy, random.shuffle, acquire
ranked_acquire(t) ==
    /\ th[t].pc = "ranked"
    /\ CanAcquire(t)
    /\ \E T \in Shuffles(th[t].servers) :
          th' = [th EXCEPT ![t].servers = T, ![t].pc = "ranked_sort"]
    /\ lock' = Acquired(t)
    /\ UNCHANGED <<cmd, rv, alg, config, backend, st, dump, last, nops, sel>>

\* a ranked that returns without releasing the lock
ranked_keep == lock

\* the lock State.ranked leaves behind when its "with" block ends
ranked_release == Released

\* thread t is inside state.observe, after SM[server] and the global mean
\* were updated and before the algorithm's own maps are
MidObserve(t) ==
    th[t].pc \in {"sr_read", "sr_write", "bmod_srm", "bmod_sr", "ar1_step"}

\* State.ranked: servers.sort(key=self.rank) under the lock, release, and
\* back in query the start of "for server in servers"
ranked_sort(t) ==
    /\ th[t].pc = "ranked_sort"
    /\ \E T \in sorted(alg, st, th[t].servers) :
          th' = [th EXCEPT ![t].servers = T,
                           ![t].idx = 1,
                           ![t].server = T[1],
                           ![t].sawMid = {u \in Threads : MidObserve(u)},
                           ![t].pc = "attempt"]
    /\ lock' = ranked_release
    /\ UNCHANGED <<cmd, rv, alg, config, backend, st, dump, last, nops, sel>>

\* query up to the backend call: delay and lifetime, resolve_backend(server),
\* which raises when the backend cannot be constructed, then the call starts
query_call(t) ==
    /\ th[t].pc = "attempt"
    /\ \E built \in BOOLEAN :
          th' = [th EXCEPT
                    ![t].pc = IF built THEN "backend" ELSE "raised",
                    ![t].cause = IF built THEN None ELSE "resolve_backend",
                    ![t].calls = IF built THEN @ + 1 ELSE @]
    /\ UNCHANGED <<cmd, rv, alg, config, backend, st, lock, dump, last, nops, sel>>

\* where state.observe of the algorithm starts: ar1 takes the lock around
\* everything, the others enter base State.observe
observe_entry == IF alg = "ar1" THEN "ar1_lock" ELSE "base_lock"

\* the backend call returns a BackendResponse: rep, with rep.rtime the
\* response time; state.observe is entered next
backend_return(t) ==
    /\ th[t].pc = "backend"
    /\ \E code \in backend.codes, rtime \in backend.rtimes :
          th' = [th EXCEPT
                    ![t].rep = [code |-> code, rtime |-> rtime],
                    ![t].log = Append(@, [server |-> th[t].server, code |-> code]),
                    ![t].nobs = @ + 1,
                    ![t].obs = Append(@, [server |-> th[t].server,
                                          rtime |-> rtime,
                                          servers |-> th[t].servers]),
                    ![t].pc = observe_entry]
    /\ UNCHANGED <<cmd, rv, alg, config, backend, st, lock, dump, last, nops, sel>>

\* the backend call, or BackendResponse.model_validate of its result, raises:
\* query has no handler, the exception leaves query
backend_raise(t) ==
    /\ th[t].pc = "backend"
    /\ th' = [th EXCEPT ![t].pc = "raised", ![t].cause = "backend"]
    /\ UNCHANGED <<cmd, rv, alg, config, backend, st, lock, dump, last, nops, sel>>

(***************************************************************************)
(* state.observe(server, rep.rtime, rep.code, servers) as the thread runs  *)
(* it: each action is one statement of the observe methods, so that the    *)
(* statements of two threads interleave as the source lets them.           *)
(***************************************************************************)
\* ar1 State.observe: "with self._lock:" around the whole method
ar1_lock(t) ==
    /\ th[t].pc = "ar1_lock"
    /\ CanAcquire(t)
    /\ lock' = Acquired(t)
    /\ th' = [th EXCEPT ![t].pc = "base_lock"]
    /\ UNCHANGED <<cmd, rv, alg, config, backend, st, dump, last, nops, sel>>

\* base State.observe: "with self._lock:"
base_lock(t) ==
    /\ th[t].pc = "base_lock"
    /\ CanAcquire(t)
    /\ lock' = Acquired(t)
    /\ th' = [th EXCEPT ![t].pc = "base_sm"]
    /\ UNCHANGED <<cmd, rv, alg, config, backend, st, dump, last, nops, sel>>

\* base State.observe: self.SM[server].observe(rtime)
base_sm(t) ==
    /\ th[t].pc = "base_sm"
    /\ st' = observe_SM(st, th[t].server, th[t].rep.rtime)
    /\ th' = [th EXCEPT ![t].pc = "base_global"]
    /\ UNCHANGED <<cmd, rv, alg, config, backend, lock, dump, last, nops, sel>>

\* the lock base State.observe leaves behind when its "with" block ends
base_release == Released

\* base State.observe: super().observe(rtime), then the lock is released
\* and the subclass's observe goes on
base_global(t) ==
    /\ th[t].pc = "base_global"
    /\ st' = observe_global(st, th[t].rep.rtime)
    /\ lock' = base_release
    /\ th' = [th EXCEPT ![t].pc = IF alg = "base" THEN "decide" ELSE "sr_read",
                        ![t].k = 1]
    /\ UNCHANGED <<cmd, rv, alg, config, backend, dump, last, nops, sel>>

\* bind State.observe: Ri = self.SR[Si]
sr_read(t) ==
    /\ th[t].pc = "sr_read"
    /\ th' = [th EXCEPT ![t].Ri = st.SR[th[t].servers[th[t].k]],
                        ![t].pc = "sr_write"]
    /\ UNCHANGED <<cmd, rv, alg, config, backend, st, lock, dump, last, nops, sel>>

\* bind State.observe: self.SR[Si] = r, with r computed from the Ri read
sr_write(t) ==
    /\ th[t].pc = "sr_write"
    /\ st' = [st EXCEPT !.SR[th[t].servers[th[t].k]] =
                bind_r(th[t].servers[th[t].k], th[t].Ri, th[t].server,
                       th[t].rep.rtime)]
    /\ th' = [th EXCEPT
                ![t].k = IF @ < Len(th[t].servers) THEN @ + 1 ELSE 1,
                ![t].pc = IF th[t].k < Len(th[t].servers) THEN "sr_read"
                          ELSE CASE alg = "bind" -> "decide"
                                 [] alg = "bmod" -> "bmod_srm"
                                 [] alg = "ar1" -> "ar1_step"]
    /\ UNCHANGED <<cmd, rv, alg, config, backend, lock, dump, last, nops, sel>>

\* bmod State.observe: a = self.SRM[server] and self.params.a;
\* self.SRM[server] = a * self.SRM[server] + (1 - a) * rtime
bmod_srm_step(t) ==
    /\ th[t].pc = "bmod_srm"
    /\ st' = [st EXCEPT !.SRM[th[t].server] = bmod_srm(@, th[t].rep.rtime)]
    /\ th' = [th EXCEPT ![t].pc = "bmod_sr"]
    /\ UNCHANGED <<cmd, rv, alg, config, backend, lock, dump, last, nops, sel>>

\* bmod State.observe: self.SR[server] = max(self.SR[server], self.SRM[server])
bmod_sr_step(t) ==
    /\ th[t].pc = "bmod_sr"
    /\ st' = bmod_sr(st, th[t].server)
    /\ th' = [th EXCEPT ![t].pc = "decide"]
    /\ UNCHANGED <<cmd, rv, alg, config, backend, lock, dump, last, nops, sel>>

\* ar1 State.observe: one iteration of "for Si in servers" under the lock,
\* o its outcome.  A ZeroDivisionError of ARStats.observe leaves the "with"
\* block (the lock is released) and then query.
ar1_step_done(t, o, more) ==
    /\ st' = o.st
    /\ lock' = IF o.raised \/ ~more THEN Released ELSE lock
    /\ th' = [th EXCEPT
                ![t].k = IF more THEN @ + 1 ELSE @,
                ![t].cause = IF o.raised THEN "observe" ELSE @,
                ![t].pc = IF o.raised THEN "raised"
                          ELSE IF more THEN "ar1_step" ELSE "decide"]

ar1_step_act(t) ==
    /\ th[t].pc = "ar1_step"
    /\ ar1_step_done(t,
          ar1_step(st, th[t].servers[th[t].k], th[t].server, th[t].rep.rtime),
          th[t].k < Len(th[t].servers))
    /\ UNCHANGED <<cmd, rv, alg, config, backend, dump, last, nops, sel>>

\* a retry test that allows one retry more than the budget
Retry_le(code, failed, retries_max) ==
    code = "SERVFAIL" /\ Len(failed) <= retries_max

\* the retry test of query:
\*     rep.code is rep.code.SERVFAIL and len(failed) < self.config.retries_max
Retry(code, failed, retries_max) ==
    code = "SERVFAIL" /\ Len(failed) < retries_max

\* "failed or None": None for the empty list, else the list.  An optional
\* list is the record [isNone, list].
OrNone(failed) ==
    IF failed = <<>> THEN [isNone |-> TRUE, list |-> <<>>]
    ELSE [isNone |-> FALSE, list |-> failed]

\* Response(**rep.model_dump(), server=server, q=q, tag=tag, failed=failed or None)
Response(rep, server, failed) ==
    [code |-> rep.code, rtime |-> rep.rtime, server |-> server,
     tag |-> select(config).tag, failed |-> OrNone(failed)]

\* a query that lists the server in failed before it tests the budget
decide_early(L) ==
    IF Retry(L.rep.code, L.failed, config.retries_max)
    THEN IF L.idx < Len(L.servers)
         THEN [L EXCEPT !.failed = Append(@, L.server),
                        !.idx = @ + 1,
                        !.server = L.servers[L.idx + 1],
                        !.pc = "attempt"]
         ELSE [L EXCEPT !.failed = Append(@, L.server), !.pc = "ranked"]
    ELSE [L EXCEPT !.pc = "returned",
                   !.resp = Response(L.rep, L.server,
                                IF L.rep.code = "SERVFAIL"
                                THEN Append(L.failed, L.server) ELSE L.failed)]

\* query after state.observe, on the locals L of the thread: retry with the
\* next server of the pass (or rank again when the pass is exhausted), or
\* break and return the Response
decide(L) ==
    IF Retry(L.rep.code, L.failed, config.retries_max)
    THEN IF L.idx < Len(L.servers)
         THEN [L EXCEPT !.failed = Append(@, L.server),
                        !.idx = @ + 1,
                        !.server = L.servers[L.idx + 1],
                        !.pc = "attempt"]
         ELSE [L EXCEPT !.failed = Append(@, L.server), !.pc = "ranked"]
    ELSE [L EXCEPT !.pc = "returned",
                   !.resp = Response(L.rep, L.server, L.failed)]

\* a query that ranks the candidates again after every failed attempt
query_decide_rerank(t) ==
    /\ th[t].pc = "decide"
    /\ th' = [th EXCEPT ![t] =
                IF decide(th[t]).pc = "attempt"
                THEN [decide(th[t]) EXCEPT !.pc = "ranked"]
                ELSE decide(th[t])]
    /\ UNCHANGED <<cmd, rv, alg, config, backend, st, lock, dump, last, nops, sel>>

\* query after state.observe: the test of the answer and what follows it
query_decide(t) ==
    /\ th[t].pc = "decide"
    /\ th' = [th EXCEPT ![t] = decide(th[t])]
    /\ UNCHANGED <<cmd, rv, alg, config, backend, st, lock, dump, last, nops, sel>>

\* ClientServerBaseCommand.save: self.resolver.state.model_dump(), which
\* reads the State without taking State._lock.  mid records the threads
\* whose observe was half done at that moment.
save ==
    /\ dump = <<>>
    /\ dump' = <<[data |-> st, mid |-> {t \in Threads : MidObserve(t)}]>>
    /\ UNCHANGED <<cmd, rv, alg, config, backend, st, lock, th, last, nops, sel>>

(***************************************************************************)
(* The State object used directly: add, observe and ranked as whole calls. *)
(* last keeps the call, the State before it and what it returned.          *)
(***************************************************************************)
NoCall ==
    [op |-> "none", server |-> None, rtime |-> RZero, code |-> None,
     servers |-> <<>>, pre |-> EmptyState, out |-> <<>>, keys |-> <<>>,
     arg |-> <<>>, raised |-> FALSE, data |-> <<>>]

\* the servers that have an entry in every per-server map of the State;
\* observe and rank raise KeyError for any other
KnownServers(s) ==
    {x \in DOMAIN s.SM : /\ HasSR(alg) => x \in DOMAIN s.SR
                         /\ HasSRM(alg) => x \in DOMAIN s.SRM
                         /\ HasSAR(alg) => x \in DOMAIN s.SAR}

\* server lists of known servers, as query passes them to ranked and observe
KnownLists(s) == UNION {[1..k -> KnownServers(s)] : k \in 1..MaxList}

Range(S) == {S[i] : i \in 1..Len(S)}

\* state.add(server)
do_add ==
    /\ nops < MaxOps
    /\ \E server \in Servers :
          /\ st' = add(alg, st, server)
          /\ last' = <<[NoCall EXCEPT !.op = "add", !.server = server,
                                      !.pre = st]>>
    /\ nops' = nops + 1
    /\ UNCHANGED <<cmd, rv, alg, config, backend, lock, th, dump, sel>>

\* the effect of state.observe(server, rtime, code, servers) with outcome o
do_observe2(server, rtime, code, servers, o) ==
    /\ st' = o.st
    /\ last' = <<[NoCall EXCEPT !.op = "observe", !.server = server,
                                !.rtime = rtime, !.code = code,
                                !.servers = servers, !.pre = st,
                                !.raised = o.raised]>>
    /\ sel' = sel \cup {server}

\* state.observe(server, rtime, code, servers), server one of servers
do_observe ==
    /\ nops < MaxOps
    /\ \E servers \in KnownLists(st) :
       \E server \in Range(servers) :
       \E rtime \in backend.rtimes, code \in backend.codes :
          do_observe2(server, rtime, code, servers,
                      observe(alg, st, server, rtime, code, servers))
    /\ nops' = nops + 1
    /\ UNCHANGED <<cmd, rv, alg, config, backend, lock, th, dump>>

\* state.ranked(servers)
do_ranked ==
    /\ nops < MaxOps
    /\ \E servers \in KnownLists(st) :
       \E r \in ranked_call(alg, st, servers) :
          last' = <<[NoCall EXCEPT !.op = "ranked", !.servers = servers,
                                   !.pre = st, !.out = r.out,
                                   !.keys = r.keys, !.arg = r.arg]>>
    /\ nops' = nops + 1
    /\ UNCHANGED <<cmd, rv, alg, config, backend, st, lock, th, dump, sel>>

\* a snapshot with only the fields K of d
Restrict(d, K) == [f \in K |-> d[f]]

\* what load can be given: the State's own dump or the saved file, whole
\* or with fields left out
Snapshots ==
    {Restrict(d, K) :
        d \in {model_dump(alg, st)} \cup {model_dump(alg, dump[i].data) : i \in 1..Len(dump)},
        K \in SUBSET Fields(alg)}

\* a saved file edited by hand or damaged: one number of the snapshot
\* replaced by a negative one
Damaged(d) ==
    {[d EXCEPT ![f] = -1] : f \in (DOMAIN d) \cap {"count"}}
        \cup UNION {{[d EXCEPT ![f][s] = RInt(-1)] : s \in DOMAIN d[f]} :
                       f \in (DOMAIN d) \cap {"SR"}}
        \cup UNION {{[d EXCEPT ![f][s].idle = -1] : s \in DOMAIN d[f]} :
                       f \in (DOMAIN d) \cap {"SAR"}}

\* the effect of state.load(data) with outcome o
do_load2(data, o) ==
    /\ st' = o.st
    /\ last' = <<[NoCall EXCEPT !.op = "load", !.pre = st, !.data = <<data>>,
                                !.raised = o.raised]>>

\* state.load(data)
do_load ==
    /\ nops < MaxOps
    /\ \E data \in Snapshots \cup UNION {Damaged(d) : d \in Snapshots} :
          do_load2(data, load_call(alg, st, data))
    /\ nops' = nops + 1
    /\ UNCHANGED <<cmd, rv, alg, config, backend, lock, th, dump, sel>>

\* state.observe(server, rep.rtime, rep.code, servers) as Resolver.query
\* calls it: servers is the list state.ranked returned for the selected
\* servers, server any element of it (the first, or a later one after
\* SERVFAIL answers)
do_query_observe ==
    /\ nops < MaxRun
    /\ \E servers \in ranked(alg, st, select(config).servers) :
       \E server \in Range(servers) :
       \E rtime \in backend.rtimes, code \in backend.codes :
          do_observe2(server, rtime, code, servers,
                      observe(alg, st, server, rtime, code, servers))
    /\ nops' = nops + 1
    /\ UNCHANGED <<cmd, rv, alg, config, backend, lock, th, dump>>

\* state.ranked(servers) as Resolver.query calls it, on the selected servers
do_query_ranked ==
    /\ nops < MaxRun
    /\ \E r \in ranked_call(alg, st, select(config).servers) :
          last' = <<[NoCall EXCEPT !.op = "ranked",
                                   !.servers = select(config).servers,
                                   !.pre = st, !.out = r.out,
                                   !.keys = r.keys, !.arg = r.arg]>>
    /\ nops' = nops + 1
    /\ UNCHANGED <<cmd, rv, alg, config, backend, st, lock, th, dump, sel>>

\* how many queries a run of single-attempt queries makes
MaxHead == 8

\* one Resolver.query that is answered at its first attempt: state.ranked on
\* the selected servers, the backend call to the head of the list, and
\* state.observe(server, rep.rtime, rep.code, servers) with that list
do_query_head ==
    /\ nops < MaxHead
    /\ \E servers \in ranked(alg, st, select(config).servers) :
       \E rtime \in backend.rtimes, code \in backend.codes :
          do_observe2(servers[1], rtime, code, servers,
                      observe(alg, st, servers[1], rtime, code, servers))
    /\ nops' = nops + 1
    /\ UNCHANGED <<cmd, rv, alg, config, backend, lock, th, dump>>

(***************************************************************************)
(* Domain rules (models.py DomainRule, algs/base.py Config.rules and       *)
(* Resolver.select).  A name is the sequence of its characters.            *)
(***************************************************************************)
\* longest label and most labels of the question names explored
MaxLabelLen == 2
MaxLabels == 3
\* most rules of a Config
MaxRules == 2

Letters == {"a", "b", "A"}

\* str.lower(), one character
lower_char(ch) == IF ch = "A" THEN "a" ELSE IF ch = "B" THEN "b" ELSE ch

\* str.lower()
lower(x) == [i \in 1..Len(x) |-> lower_char(x[i])]

\* str.strip('.'): the leading and the trailing dots removed
RECURSIVE lstrip(_)
lstrip(x) == IF x # <<>> /\ Head(x) = "." THEN lstrip(Tail(x)) ELSE x

RECURSIVE rstrip(_)
rstrip(x) ==
    IF x # <<>> /\ x[Len(x)] = "." THEN rstrip(SubSeq(x, 1, Len(x) - 1)) ELSE x

strip(x) == rstrip(lstrip(x))

\* the Domain type: AfterValidator(lambda x: x.strip('.').lower())
Domain(x) == lower(strip(x))

\* '.'.join(labels)
RECURSIVE Join(_)
Join(labels) ==
    IF Len(labels) = 1 THEN labels[1]
    ELSE labels[1] \o <<".">> \o Join(Tail(labels))

Labels == UNION {[1..k -> Letters] : k \in 1..MaxLabelLen}

\* domain names: non-empty labels joined by dots
Names == {Join(ls) : ls \in UNION {[1..k -> Labels] : k \in 1..MaxLabels}}

\* the names a Question carries: with or without the root dot
Qnames == Names \cup {n \o <<".">> : n \in Names}

\* a match that takes any suffix, whole label or not
buildpat_alt_any_suffix(d, qname, n) ==
    /\ n >= 0
    /\ \A j \in 1..Len(d) : lower_char(qname[n + j]) = lower_char(d[j])

\* one alternative d of the pattern ^(.+\.)?(d)\.?$ against qname, the
\* group (.+\.)? taking the first n characters: with re.I the characters
\* of d match in either case, and a prefix is at least one character and
\* then a dot
buildpat_alt(d, qname, n) ==
    /\ n >= 0
    /\ \A j \in 1..Len(d) : lower_char(qname[n + j]) = lower_char(d[j])
    /\ n = 0 \/ (n >= 2 /\ qname[n] = ".")

\* buildpat(*domains).match(qname): no domains gives the pattern '.^',
\* which matches nothing; \.? takes k = 0 or 1 characters
buildpat_match(domains, qname) ==
    \E i \in 1..Len(domains), k \in {0, 1} :
        /\ k = 1 => (qname # <<>> /\ qname[Len(qname)] = ".")
        /\ buildpat_alt(domains[i], qname, Len(qname) - k - Len(domains[i]))

\* DomainRule.matches(qname)
DomainRule_matches(rule, qname) ==
    /\ buildpat_match(<<rule.domain>>, qname)
    /\ ~buildpat_match(rule.exclude, qname)

\* DomainRule.order
DomainRule_order(rule) == -Len(rule.domain)

\* DomainRule.model_validate of a configured rule; pos is the place the
\* rule has in the configured list
DomainRule(raw, pos) ==
    [domain |-> Domain(raw.domain),
     exclude |-> [i \in 1..Len(raw.exclude) |-> Domain(raw.exclude[i])],
     servers |-> raw.servers, tag |-> raw.tag, pos |-> pos]

\* rules left in the order they were configured
rules_unsorted(rules) == rules

\* Config.rules: AfterValidator(lambda x: tuple(sorted(x))), a stable sort
\* by DomainRule.order
rules_sorted(rules) ==
    SortByKeys(rules, [i \in 1..Len(rules) |-> RInt(DomainRule_order(rules[i]))])

\* Config.model_validate: every rule validated, then the rules sorted
Config_rules(raws) ==
    rules_sorted([i \in 1..Len(raws) |-> DomainRule(raws[i], i)])

\* f'GRP{n}'
GroupTags == <<"GRP1", "GRP2", "GRP3">>

ServerSet(servers) == {servers[i] : i \in 1..Len(servers)}

\* builder.setdefault(key, value): the dict afterwards
setdefault(builder, key, value) ==
    IF key \in DOMAIN builder THEN builder ELSE Ext(builder, key, value)

\* rule.tag or f'GRP{len(builder)}'
tag_or_group(rule, builder) ==
    IF rule.tag # <<>> THEN rule.tag[1]
    ELSE GroupTags[Cardinality(DOMAIN builder)]

\* Resolver.servergroups, the loop over the rules from rule i on: the
\* rules with the tags it assigns to them
RECURSIVE servergroups_loop(_, _, _)
servergroups_next(rules, i, builder) ==
    servergroups_loop(
        [rules EXCEPT ![i].tag = <<builder[ServerSet(rules[i].servers)]>>],
        i + 1, builder)

servergroups_loop(rules, i, builder) ==
    IF i > Len(rules) THEN rules
    ELSE servergroups_next(rules, i,
            setdefault(builder, ServerSet(rules[i].servers),
                       tag_or_group(rules[i], builder)))

\* Resolver.model_post_init preloads servergroups, which sets rule.tag of
\* every rule to the tag of its server group
servergroups(c) ==
    [c EXCEPT !.rules =
        servergroups_loop(@, 1, [x \in {ServerSet(c.servers)} |-> "DFLT"])]

\* Resolver.select(q): the first rule of config.rules that matches, else
\* the Config itself and the tag DFLT
RECURSIVE select_from(_, _, _)
select_from(c, qname, i) ==
    IF i > Len(c.rules) THEN select(c)
    ELSE IF DomainRule_matches(c.rules[i], qname)
         THEN [servers |-> c.rules[i].servers, tag |-> c.rules[i].tag[1]]
         ELSE select_from(c, qname, i + 1)

Resolver_select(c, qname) == select_from(c, qname, 1)

\* Resolver.model_post_init: state.add for the servers of the Config and
\* of every rule
RECURSIVE add_rules(_, _, _)
add_rules(a, s, rules) ==
    IF rules = <<>> THEN s
    ELSE add_rules(a, addAll(a, s, Head(rules).servers), Tail(rules))

\* select calls of a run; select reads the Config only and changes nothing
MaxSelect == 1

\* resolver.select(q)
do_select ==
    /\ nops < MaxSelect
    /\ \E qname \in Qnames :
          last' = <<[NoCall EXCEPT !.op = "select", !.arg = qname,
                                   !.out = <<Resolver_select(config, qname)>>]>>
    /\ nops' = nops + 1
    /\ UNCHANGED <<cmd, rv, alg, config, backend, st, lock, th, dump, sel>>

(***************************************************************************)
(* The client command (cli/base.py, cli/client.py): worker threads run     *)
(* loop, a SIGHUP or the R key runs reload.  The statements under          *)
(* "with self._lock" are one step each; resolver.query runs outside the    *)
(* lock.  cmd holds the command's fields and, for the properties, counts   *)
(* of what happened: issued and decs per Anomaly object, seen per server.  *)
(***************************************************************************)
\* queries the command issues and reloads it is sent
MaxCount == 3
MaxReloads == 1

\* most anomalies of a config file
MaxAnomalies == 3

\* the limits of the anomalies of the config file, <<>> for no limit:
\* limits 1 and 2, or limit 1, limit 0 and one without limit
Files == {<< <<1>>, <<2>> >>, << <<1>>, <<0>>, <<>> >>}

\* Anomaly objects: config_anomalies validates the file's anomalies anew
\* at setup and at every reload
AnomalyIds == 1..(MaxAnomalies * (MaxReloads + 1))

\* config_anomalies(config) of the k-th reading of the file: every
\* anomaly has one delayer of its own
config_anomalies(file, k) ==
    [i \in 1..Len(file) |->
        [id |-> k * MaxAnomalies + i, limit |-> file[i],
         delayers |-> <<k * MaxAnomalies + i>>]]

\* prep_anomaly with limit >= 0 for limit > 0
RECURSIVE prep_anomaly_keep_exhausted(_, _)
prep_anomaly_keep_exhausted(anomaly, anomalies) ==
    IF anomaly # <<>> /\ (anomaly[1].limit = <<>> \/ anomaly[1].limit[1] >= 0)
    THEN [anomaly |-> anomaly, anomalies |-> anomalies,
          delayers |-> anomaly[1].delayers]
    ELSE IF anomalies # <<>>
         THEN prep_anomaly_keep_exhausted(<<Head(anomalies)>>, Tail(anomalies))
         ELSE [anomaly |-> <<>>, anomalies |-> <<>>, delayers |-> <<>>]

\* prep_anomaly: self.anomaly, self.anomalies and resolver.delayers
\* afterwards
RECURSIVE prep_anomaly(_, _)
prep_anomaly(anomaly, anomalies) ==
    IF anomaly # <<>> /\ (anomaly[1].limit = <<>> \/ anomaly[1].limit[1] > 0)
    THEN [anomaly |-> anomaly, anomalies |-> anomalies,
          delayers |-> anomaly[1].delayers]
    ELSE IF anomalies # <<>>
         THEN prep_anomaly(<<Head(anomalies)>>, Tail(anomalies))
         ELSE [anomaly |-> <<>>, anomalies |-> <<>>, delayers |-> <<>>]

\* the call of prep_anomaly that gave p, as the command remembers it
PrepCall(anomaly, anomalies, p) ==
    <<[before |-> anomaly, queue |-> anomalies, after |-> p.anomaly,
       left |-> p.anomalies, delayers |-> p.delayers]>>

\* the anomalies that became active, in the order they did: a with p's one
\* more when p's anomaly is another than the one before
Activated(a, anomaly, p) ==
    IF p.anomaly # <<>> /\ (anomaly = <<>> \/ anomaly[1].id # p.anomaly[1].id)
    THEN Append(a, [p.anomaly[1] EXCEPT !.delayers = <<>>])
    ELSE a

\* a worker between two loops
IdleLoop == [pc |-> "idle", resolver |-> 0, servers |-> <<>>]

\* one more in the count c of key k
Count(c, k) == [c EXCEPT ![k] = @ + 1]

\* the queries counted for the active anomaly, if there is one
CountActive(c, anomaly) ==
    IF anomaly = <<>> THEN c ELSE Count(c, anomaly[1].id)

\* loop, up to the call of resolver.query: prep_anomaly, self.count += 1,
\* then query on the Resolver self.resolver refers to, which selects and
\* ranks the servers
loop_issue2(t, p) ==
    \E servers \in ranked(alg, st, select(config).servers) :
       cmd' = [cmd EXCEPT
                 !.anomaly = p.anomaly, !.anomalies = p.anomalies,
                 !.delayers = p.delayers,
                 !.prep = PrepCall(cmd.anomaly, cmd.anomalies, p),
                 !.activated = Activated(@, cmd.anomaly, p),
                 !.count = @ + 1,
                 !.issued = CountActive(@, p.anomaly),
                 !.loops[t] = [pc |-> "query", resolver |-> cmd.resolver,
                               servers |-> servers]]

loop_issue(t) ==
    /\ cmd.loops[t].pc = "idle"
    /\ cmd.count < MaxCount
    /\ loop_issue2(t, prep_anomaly(cmd.anomaly, cmd.anomalies))
    /\ UNCHANGED <<rv, alg, config, backend, st, lock, th, dump, last, nops, sel>>

\* the State object of the Resolver a query runs on: the live one, or the
\* one a reload has replaced
StateOf(r) == IF r = cmd.resolver THEN st ELSE cmd.retired[1]

\* the algorithm of that Resolver
AlgOf(r) == IF r = cmd.resolver THEN alg ELSE cmd.retired_alg

\* resolver.query returns: the backend answered and state.observe of the
\* query's Resolver recorded the answer
query_answer(t, server, o) ==
    /\ ~o.raised
    /\ IF cmd.loops[t].resolver = cmd.resolver
       THEN /\ st' = o.st
            /\ cmd' = [cmd EXCEPT !.loops[t].pc = "answered",
                                  !.seen = Count(@, server)]
       ELSE /\ st' = st
            /\ cmd' = [cmd EXCEPT !.loops[t].pc = "answered",
                                  !.seen = Count(@, server),
                                  !.retired = <<o.st>>]

query_return(t) ==
    /\ cmd.loops[t].pc = "query"
    /\ \E rtime \in backend.rtimes, code \in backend.codes :
          query_answer(t, cmd.loops[t].servers[1],
              observe(AlgOf(cmd.loops[t].resolver),
                      StateOf(cmd.loops[t].resolver),
                      cmd.loops[t].servers[1], rtime, code,
                      cmd.loops[t].servers))
    /\ UNCHANGED <<rv, alg, config, backend, lock, th, dump, last, nops, sel>>

\* resolver.query raises (the backend raised): nothing is observed
query_raise(t) ==
    /\ cmd.loops[t].pc = "query"
    /\ cmd' = [cmd EXCEPT !.loops[t].pc = "failed"]
    /\ UNCHANGED <<rv, alg, config, backend, st, lock, th, dump, last, nops, sel>>

\* self.anomaly.limit -= 1
decrement(anomaly) ==
    IF anomaly = <<>> \/ anomaly[1].limit = <<>> THEN anomaly
    ELSE <<[anomaly[1] EXCEPT !.limit = <<@[1] - 1>>]>>

\* the decrements counted for the active anomaly, if its limit is finite
CountDecrement(c, anomaly) ==
    IF anomaly = <<>> \/ anomaly[1].limit = <<>> THEN c
    ELSE Count(c, anomaly[1].id)

\* loop after resolver.query: the except branch logs 'Query failed'; the
\* else branch decrements the limit of self.anomaly under the lock
loop_account(t) ==
    /\ cmd.loops[t].pc \in {"answered", "failed"}
    /\ cmd' = IF cmd.loops[t].pc = "failed"
              THEN [cmd EXCEPT !.loops[t] = IdleLoop]
              ELSE [cmd EXCEPT !.loops[t] = IdleLoop,
                               !.anomaly = decrement(@),
                               !.decs = CountDecrement(@, cmd.anomaly)]
    /\ UNCHANGED <<rv, alg, config, backend, st, lock, th, dump, last, nops, sel>>

\* reload with the outcome o of resolver.state.load(...) on the new
\* Resolver and p of prep_anomaly: a raise leaves the command as it was
reload2(o, q, p, a) ==
    IF o.raised THEN UNCHANGED <<cmd, st, alg>>
    ELSE /\ st' = o.st
         /\ alg' = cmd.opts.algorithm
         /\ cmd' = [cmd EXCEPT !.resolver = @ + 1, !.retired = <<st>>,
                               !.retired_alg = alg,
                               !.opts.algorithm = IF cmd.explicit THEN @ ELSE a,
                               !.hup = <<a>>,
                               !.reloads = @ + 1,
                               !.anomaly = p.anomaly,
                               !.anomalies = p.anomalies,
                               !.delayers = p.delayers,
                               !.prep = PrepCall(cmd.anomaly, q, p),
                               !.activated = Activated(@, cmd.anomaly, p)]

\* the algorithm option the config file can hold when it is read again
FileAlgorithms == {"bind", "ar1"}

\* reload: the options are read anew from the file (the algorithm option
\* unless it was given on the command line), a new Resolver of
\* registry[self.opts.algorithm], self.opts being the options before this
\* reload, is given the dump of the live State and replaces the live
\* Resolver together with the options, the anomalies are read anew
reload ==
    /\ cmd.reloads < MaxReloads
    /\ \E a \in FileAlgorithms :
          reload2(load_call(cmd.opts.algorithm,
                            NewState(cmd.opts.algorithm, config),
                            model_dump(alg, st)),
                  config_anomalies(cmd.file, cmd.reloads + 1),
                  prep_anomaly(cmd.anomaly,
                               config_anomalies(cmd.file, cmd.reloads + 1)),
                  a)
    /\ UNCHANGED <<rv, config, backend, lock, th, dump, last, nops, sel>>

\* the command after setup
Command(file, explicit) ==
    [file |-> file,
     opts |-> [algorithm |-> "bind"], explicit |-> explicit, hup |-> <<>>,
     retired_alg |-> "bind",
     anomaly |-> prep_anomaly(<<>>, config_anomalies(file, 0)).anomaly,
     anomalies |-> prep_anomaly(<<>>, config_anomalies(file, 0)).anomalies,
     delayers |-> prep_anomaly(<<>>, config_anomalies(file, 0)).delayers,
     prep |-> PrepCall(<<>>, config_anomalies(file, 0),
                       prep_anomaly(<<>>, config_anomalies(file, 0))),
     activated |-> Activated(<<>>, <<>>,
                             prep_anomaly(<<>>, config_anomalies(file, 0))),
     resolver |-> 0, retired |-> <<>>, reloads |-> 0, count |-> 0,
     loops |-> [t \in Threads |-> IdleLoop],
     issued |-> [i \in AnomalyIds |-> 0], decs |-> [i \in AnomalyIds |-> 0],
     seen |-> [s \in Servers |-> 0]]

(***************************************************************************)
(* Specifications.                                                         *)
(***************************************************************************)
step(t) ==
    \/ query_select(t)
    \/ ranked_acquire(t)
    \/ ranked_sort(t)
    \/ query_call(t)
    \/ backend_return(t)
    \/ backend_raise(t)
    \/ ar1_lock(t)
    \/ base_lock(t)
    \/ base_sm(t)
    \/ base_global(t)
    \/ sr_read(t)
    \/ sr_write(t)
    \/ bmod_srm_step(t)
    \/ bmod_sr_step(t)
    \/ ar1_step_act(t)
    \/ query_decide(t)

\* one thread runs queries one after another, under any algorithm
Init ==
    /\ alg \in Algs
    /\ config \in Configs
    /\ backend = [codes |-> Rcodes, rtimes |-> Rtimes]
    /\ st = NewState(alg, config)
    /\ lock = FreeLock
    /\ th = [t \in Threads |->
                IF t = "T1" THEN IdleThread ELSE [IdleThread EXCEPT !.pc = "off"]]
    /\ dump = <<>>
    /\ last = <<>>
    /\ nops = 0
    /\ sel = {}
    /\ cmd = NoCommand
    /\ rv = NoVariance

Next == \E t \in Threads : step(t)

Spec == Init /\ [][Next]_vars

\* Two threads of the server's pool (or the client loop and the server's
\* handlers) run queries on the one Resolver while the command saves the
\* state.  The candidates are MaxCand different servers.
ConcConfigs ==
    [servers : {[i \in 1..MaxCand |-> ServerNames[i]]},
     retries_max : 0..MaxConcRetries]

\* the backends of the concurrent runs answer at one speed, and fail or not
ConcBackend == [codes |-> {"NOERROR", "SERVFAIL"}, rtimes |-> {RInt(1)}]

InitConc ==
    /\ alg \in Algs
    /\ config \in ConcConfigs
    /\ backend = ConcBackend
    /\ st = NewState(alg, config)
    /\ lock = FreeLock
    /\ th = [t \in Threads |-> IdleThread]
    /\ dump = <<>>
    /\ last = <<>>
    /\ nops = 0
    /\ sel = {}
    /\ cmd = NoCommand
    /\ rv = NoVariance

NextConc ==
    \/ \E t \in Threads : step(t)
    \/ save

SpecConc == InitConc /\ [][NextConc]_vars

\* response times handed to observe: NonNegativeFloat, zero included
StateRtimes == {RZero, RInt(1), RInt(2)}

\* The State of a Resolver just constructed, then any add, observe and
\* ranked calls; no thread is running query.
InitState ==
    /\ alg \in Algs
    /\ config \in [servers : {[i \in 1..k |-> ServerNames[i]] : k \in 1..MaxCand},
                   retries_max : {0}]
    /\ backend = [codes |-> {"NOERROR", "SERVFAIL"}, rtimes |-> StateRtimes]
    /\ st = NewState(alg, config)
    /\ lock = FreeLock
    /\ th = [t \in Threads |-> [IdleThread EXCEPT !.pc = "off"]]
    /\ dump = <<>>
    /\ last = <<>>
    /\ nops = 0
    /\ sel = {}
    /\ cmd = NoCommand
    /\ rv = NoVariance

NextState == do_add \/ do_observe \/ do_ranked

SpecState == InitState /\ [][NextState]_vars

\* response times of the AR-1 runs: two close ones and one far off
RunRtimes == {RInt(1), RInt(2), RInt(4)}

\* The State of an AR-1 Resolver driven as its queries drive it: ranked on
\* the configured servers, observe on the ranked list.
InitAR1 ==
    /\ alg = "ar1"
    /\ config \in [servers : {[i \in 1..k |-> ServerNames[i]] : k \in 1..MaxCand},
                   retries_max : {0}]
    /\ backend = [codes |-> {"NOERROR"}, rtimes |-> RunRtimes]
    /\ st = NewState(alg, config)
    /\ lock = FreeLock
    /\ th = [t \in Threads |-> [IdleThread EXCEPT !.pc = "off"]]
    /\ dump = <<>>
    /\ last = <<>>
    /\ nops = 0
    /\ sel = {}
    /\ cmd = NoCommand
    /\ rv = NoVariance

NextAR1 == do_query_observe \/ do_query_ranked

SpecAR1 == InitAR1 /\ [][NextAR1]_vars

\* the States an earlier run of the program left in its --save file: a
\* Resolver just constructed, or one that answered a query
EarlierRuns(a) ==
    UNION {{NewState(a, c),
            observe(a, NewState(a, c), c.servers[1], RInt(2), "NOERROR",
                    c.servers).st} :
           c \in [servers : {[i \in 1..k |-> ServerNames[i]] : k \in 1..MaxCand},
                  retries_max : {0}]}

\* The State of a Resolver just constructed, beside a file saved by an
\* earlier run, then any add, observe and load calls.
InitLoad ==
    /\ alg \in Algs
    /\ config \in [servers : {[i \in 1..k |-> ServerNames[i]] : k \in 1..MaxCand},
                   retries_max : {0}]
    /\ backend = [codes |-> {"NOERROR"}, rtimes |-> {RInt(1)}]
    /\ st = NewState(alg, config)
    /\ lock = FreeLock
    /\ th = [t \in Threads |-> [IdleThread EXCEPT !.pc = "off"]]
    /\ \E s \in EarlierRuns(alg) : dump = <<[data |-> s, mid |-> {}]>>
    /\ last = <<>>
    /\ nops = 0
    /\ sel = {}
    /\ cmd = NoCommand
    /\ rv = NoVariance

NextLoad == do_add \/ do_observe \/ do_load

SpecLoad == InitLoad /\ [][NextLoad]_vars

\* the name of the text: example.com as ab.a, foo as b, bar as a, baz as
\* aa, other.net as ba.b
N_example == <<"a", "b", ".", "a">>
N_foo_example == <<"b", ".", "a", "b", ".", "a">>

\* configured rules, as the config file gives them
RuleChoices ==
    {[domain |-> N_example, exclude |-> <<>>, servers |-> <<"S2">>,
      tag |-> <<>>],
     [domain |-> N_foo_example, exclude |-> <<>>, servers |-> <<"S2", "S1">>,
      tag |-> <<"B">>],
     [domain |-> <<"A", "b", ".", "a", ".">>, exclude |-> <<N_foo_example>>,
      servers |-> <<"S1">>, tag |-> <<"C">>],
     [domain |-> N_foo_example,
      exclude |-> <<<<"a", ".", "B", ".", "a", "b", ".", "a", ".">>>>,
      servers |-> <<"S2">>, tag |-> <<"D">>],
     [domain |-> <<"a">>, exclude |-> <<<<"b", ".", "a">>>>,
      servers |-> <<"S1", "S2">>, tag |-> <<>>]}

\* Configs with rules
RuleConfigs ==
    {servergroups([servers |-> <<"S1">>, retries_max |-> 0,
                   rules |-> Config_rules(raws)]) :
        raws \in UNION {[1..k -> RuleChoices] : k \in 0..MaxRules}}

\* A Resolver with domain rules, then any select calls.
InitSelect ==
    /\ alg = "bind"
    /\ config \in RuleConfigs
    /\ backend = [codes |-> {"NOERROR"}, rtimes |-> {RInt(1)}]
    /\ st = add_rules(alg, NewState(alg, config), config.rules)
    /\ lock = FreeLock
    /\ th = [t \in Threads |-> [IdleThread EXCEPT !.pc = "off"]]
    /\ dump = <<>>
    /\ last = <<>>
    /\ nops = 0
    /\ sel = {}
    /\ cmd = NoCommand
    /\ rv = NoVariance

NextSelect == do_select

SpecSelect == InitSelect /\ [][NextSelect]_vars

\* backend calls of a run of query attempts, delayers of an anomaly
MaxAttempts == 2
MaxDelayers == 2

\* the address of a server, as the sequence of its characters
Spelling(server) ==
    CASE server = "S1" -> <<"S", "1">>
      [] server = "S2" -> <<"S", "2">>
      [] server = "S3" -> <<"S", "3">>
      [] OTHER -> <<"S", "4">>

\* re.match(pattern, server) for a pattern without special characters: the
\* pattern matches at the start of the address
re_match(pattern, server) ==
    /\ Len(pattern) =< Len(Spelling(server))
    /\ SubSeq(Spelling(server), 1, Len(pattern)) = pattern

\* the delayers an anomaly can install in resolver.delayers: Delayer.delay
\* is a NonNegativeFloat
DelayerLists ==
    UNION {[1..k -> [pattern : {<<"S">>, <<"S", "2">>},
                     delay : {RZero, RInt(1), RInt(6)}]] :
           k \in 0..MaxDelayers}

\* the delay of the last delayer that matches
RECURSIVE delayer_delay_last(_, _)
delayer_delay_last(delayers, server) ==
    IF delayers = <<>> THEN RZero
    ELSE IF re_match(delayers[Len(delayers)].pattern, server)
         THEN delayers[Len(delayers)].delay
         ELSE delayer_delay_last(SubSeq(delayers, 1, Len(delayers) - 1), server)

\* for delayer in self.delayers: if re.match(...): delay = delayer.delay;
\* break / else: delay = 0.0
RECURSIVE delayer_delay(_, _)
delayer_delay(delayers, server) ==
    IF delayers = <<>> THEN RZero
    ELSE IF re_match(Head(delayers).pattern, server) THEN Head(delayers).delay
         ELSE delayer_delay(Tail(delayers), server)

\* Resolver.lifetime(server, q)
Resolver_lifetime(c) == c.timeout_max

\* max(timeout_min, min(timeout_max, self.lifetime(server, q)))
clamped_lifetime(c) ==
    RMax(c.timeout_min, RMin(c.timeout_max, Resolver_lifetime(c)))

\* delay = min(delay, lifetime)
applied_delay(c, delayers, server) ==
    RMin(delayer_delay(delayers, server), clamped_lifetime(c))

\* lifetime -= delay
backend_lifetime(c, delayers, server) ==
    RSub(clamped_lifetime(c), applied_delay(c, delayers, server))

\* t = time.monotonic() - delay ... rep.rtime += time.monotonic() - t, the
\* clock showing now before the backend call and now + elapsed after it
query_rtime(brtime, now, elapsed, delay) ==
    RAdd(brtime, RSub(RAdd(now, elapsed), RSub(now, delay)))

\* the attempt of query on the server at the head of the ranked list, as
\* the last call remembers it
Attempt(server, servers, brtime, code, now, elapsed) ==
    [op |-> "attempt", server |-> server, servers |-> servers, pre |-> st,
     brtime |-> brtime, code |-> code, elapsed |-> elapsed,
     delay |-> applied_delay(config, cmd.delayers, server),
     lifetime |-> backend_lifetime(config, cmd.delayers, server),
     rtime |-> query_rtime(brtime, now, elapsed,
                           applied_delay(config, cmd.delayers, server))]

\* state.observe(server, rep.rtime, rep.code, servers) of the attempt a
do_query_attempt2(a) ==
    /\ st' = observe(alg, st, a.server, a.rtime, a.code, a.servers).st
    /\ last' = <<a>>

\* one pass of the loop over the ranked servers in Resolver.query: the
\* delay and the lifetime, the backend call, rep.rtime and state.observe
do_query_attempt ==
    /\ nops < MaxAttempts
    /\ \E servers \in ranked(alg, st, select(config).servers) :
       \E brtime \in backend.rtimes, code \in backend.codes :
       \E now \in {RZero, RInt(7)}, elapsed \in {RZero, RInt(1)} :
          do_query_attempt2(
              Attempt(servers[1], servers, brtime, code, now, elapsed))
    /\ nops' = nops + 1
    /\ UNCHANGED <<cmd, rv, alg, config, backend, lock, th, dump, sel>>

\* timeout_min and timeout_max of the Configs explored: PositiveFloat each
Timeouts == {RInt(1), RInt(2), RInt(5)}

\* A Resolver with any accepted timeouts and any delayers installed, then
\* query attempts.
InitQuery ==
    /\ alg = "bind"
    /\ config \in [servers : {<<"S1", "S2">>}, retries_max : {0},
                   timeout_min : Timeouts, timeout_max : Timeouts]
    /\ backend = [codes |-> {"NOERROR"}, rtimes |-> {RZero, RInt(1)}]
    /\ st = NewState(alg, config)
    /\ lock = FreeLock
    /\ th = [t \in Threads |-> [IdleThread EXCEPT !.pc = "off"]]
    /\ dump = <<>>
    /\ last = <<>>
    /\ nops = 0
    /\ sel = {}
    /\ cmd \in [delayers : DelayerLists]
    /\ rv = NoVariance

NextQuery == do_query_attempt

SpecQuery == InitQuery /\ [][NextQuery]_vars

\* The client command after setup, then its worker threads and reloads.
InitCmd ==
    /\ alg = "bind"
    /\ config = [servers |-> <<"S1", "S2">>, retries_max |-> 0]
    /\ backend = [codes |-> {"NOERROR"}, rtimes |-> {RInt(1), RInt(2)}]
    /\ st = NewState(alg, config)
    /\ lock = FreeLock
    /\ th = [t \in Threads |-> [IdleThread EXCEPT !.pc = "off"]]
    /\ dump = <<>>
    /\ last = <<>>
    /\ nops = 0
    /\ sel = {}
    /\ \E file \in Files, explicit \in BOOLEAN : cmd = Command(file, explicit)
    /\ rv = NoVariance

NextCmd ==
    \/ \E t \in Threads : loop_issue(t)
    \/ \E t \in Threads : query_return(t)
    \/ \E t \in Threads : query_raise(t)
    \/ \E t \in Threads : loop_account(t)
    \/ reload

SpecCmd == InitCmd /\ [][NextCmd]_vars

\* response times of the BIND runs: positive and bounded
HeadRtimes == {RInt(1), RInt(2)}

\* A BIND or BMOD Resolver used by one thread whose every query has the
\* same candidates and is answered by the head of the ranked list.
InitHead ==
    /\ alg \in {"bind", "bmod"}
    /\ config \in [servers : {[i \in 1..k |-> ServerNames[i]] : k \in 1..MaxCand},
                   retries_max : {0}]
    /\ backend = [codes |-> {"NOERROR"}, rtimes |-> HeadRtimes]
    /\ st = NewState(alg, config)
    /\ lock = FreeLock
    /\ th = [t \in Threads |-> [IdleThread EXCEPT !.pc = "off"]]
    /\ dump = <<>>
    /\ last = <<>>
    /\ nops = 0
    /\ sel = {}
    /\ cmd = NoCommand
    /\ rv = NoVariance

NextHead == do_query_head

SpecHead == InitHead /\ [][NextHead]_vars

\* The run has a query left to make.  Under NextHead this action is enabled
\* exactly when do_query_head is, and TLC decides its ENABLED from nops
\* alone; no step of NextHead is a step of it, so weak fairness on it says
\* that the thread makes queries until the run is used up.
QueryLeft ==
    /\ nops < MaxHead
    /\ nops' = nops + 1
    /\ UNCHANGED <<cmd, rv, alg, config, backend, st, lock, th, dump, last, sel>>

\* the thread goes on making queries as long as the run lasts
SpecHeadFair == SpecHead /\ WF_vars(QueryLeft)

\* An AR-1 Resolver used by one thread whose every query has the same
\* candidates and is answered by the head of the ranked list.
InitIdle ==
    /\ alg = "ar1"
    /\ config \in [servers : {[i \in 1..k |-> ServerNames[i]] : k \in 1..MaxCand},
                   retries_max : {0}]
    /\ backend = [codes |-> {"NOERROR"}, rtimes |-> RunRtimes]
    /\ st = NewState(alg, config)
    /\ lock = FreeLock
    /\ th = [t \in Threads |-> [IdleThread EXCEPT !.pc = "off"]]
    /\ dump = <<>>
    /\ last = <<>>
    /\ nops = 0
    /\ sel = {}
    /\ cmd = NoCommand
    /\ rv = NoVariance

NextIdle == do_query_head

SpecIdle == InitIdle /\ [][NextIdle]_vars

\* how many values the RunningVariance is given
MaxValues == 5

\* the values it is given: NonNegativeFloat, zero and a fraction included
VarValues == {RZero, <<1, 2>>, RInt(1), RInt(3)}

\* RunningVariance.observe(value) on the object under observation
rv_observe ==
    /\ rv # NoVariance
    /\ Len(rv[1].xs) < MaxValues
    /\ \E value \in VarValues :
          rv' = <<[obj |-> RunningVariance_observe(rv[1].obj, value),
                   xs |-> Append(rv[1].xs, value)]>>
    /\ UNCHANGED <<cmd, alg, config, backend, st, lock, th, dump, last, nops, sel>>

\* a RunningVariance just constructed
InitVariance ==
    /\ alg = "base"
    /\ config = [servers |-> <<ServerNames[1]>>, retries_max |-> 0]
    /\ backend = [codes |-> {"NOERROR"}, rtimes |-> VarValues]
    /\ st = NewState(alg, config)
    /\ lock = FreeLock
    /\ th = [t \in Threads |-> [IdleThread EXCEPT !.pc = "off"]]
    /\ dump = <<>>
    /\ last = <<>>
    /\ nops = 0
    /\ sel = {}
    /\ cmd = NoCommand
    /\ rv = <<[obj |-> RunningVariance, xs |-> <<>>]>>

NextVariance == rv_observe

SpecVariance == InitVariance /\ [][NextVariance]_vars

(***************************************************************************)
(* Properties of Resolver.query, checked under Spec.                       *)
(***************************************************************************)
Returned(t) == th[t].pc = "returned"
LastAnswer(t) == th[t].log[Len(th[t].log)]

\* C1: a returned Response lists at most retries_max failed servers, and
\* its failed is None exactly when no SERVFAIL was retried, which is always
\* so when retries_max is 0.
C1_FailedWithinBudget ==
    \A t \in Threads : Returned(t) =>
        /\ Len(th[t].resp.failed.list) <= config.retries_max
        /\ th[t].resp.failed.isNone <=> (Len(th[t].log) = 1)
        /\ config.retries_max = 0 => th[t].resp.failed.isNone
        /\ ~th[t].resp.failed.isNone => Len(th[t].resp.failed.list) >= 1

\* a query that used up a positive retry budget has returned
C1_BudgetUsedUp ==
    \E t \in Threads :
        /\ Returned(t)
        /\ config.retries_max > 0
        /\ ~th[t].resp.failed.isNone
        /\ Len(th[t].resp.failed.list) = config.retries_max
        /\ th[t].resp.code = "SERVFAIL"

\* C2: a query whose backend calls all return makes at most retries_max + 1
\* backend calls and then returns a Response: it never ends in an exception
\* that did not come out of a backend call.
C2_ReturnsWithinBudget ==
    \A t \in Threads :
        /\ th[t].calls <= config.retries_max + 1
        /\ th[t].pc = "raised" => th[t].cause = "backend"

\* C3: once a backend call answered with a code other than SERVFAIL, the
\* query observes that answer once, makes no further backend call and
\* returns a Response with that code and server; the observe calls of a
\* query are as many as its backend calls that returned.
C3_AnswerEndsQuery ==
    \A t \in Threads :
        /\ th[t].pc \notin {"backend", "raised"} => th[t].nobs = th[t].calls
        /\ (th[t].log # <<>> /\ LastAnswer(t).code # "SERVFAIL") =>
              /\ th[t].pc \notin {"raised", "ranked", "ranked_sort",
                                  "attempt", "backend"}
              /\ th[t].nobs = Len(th[t].log)
              /\ th[t].calls = Len(th[t].log)
              /\ Returned(t) =>
                    /\ th[t].resp.code = LastAnswer(t).code
                    /\ th[t].resp.server = LastAnswer(t).server

\* C4: failed is the sequence, in attempt order, of the servers whose
\* SERVFAIL answer was retried; server is the server of the last backend
\* call; the query made len(failed) + 1 backend calls, and returns the code
\* of the last one.
C4_FailedIsTheRetriedServers ==
    \A t \in Threads : Returned(t) =>
        /\ th[t].resp.failed.list =
              [i \in 1..(Len(th[t].log) - 1) |-> th[t].log[i].server]
        /\ \A i \in 1..(Len(th[t].log) - 1) : th[t].log[i].code = "SERVFAIL"
        /\ th[t].resp.server = LastAnswer(t).server
        /\ th[t].resp.code = LastAnswer(t).code
        /\ th[t].calls = Len(th[t].resp.failed.list) + 1
        /\ th[t].calls = Len(th[t].log)

\* two candidates, retries_max = 3: the first attempt answers SERVFAIL, the
\* second NOERROR; the Response is NOERROR from the second server, failed
\* holds the first, after 2 backend calls
C4_Scenario ==
    \E t \in Threads :
        /\ Returned(t)
        /\ Len(config.servers) = 2
        /\ config.servers[1] # config.servers[2]
        /\ config.retries_max = 3
        /\ th[t].calls = 2
        /\ th[t].resp.code = "NOERROR"
        /\ th[t].resp.failed.list = <<th[t].servers[1]>>
        /\ th[t].resp.server = th[t].servers[2]

\* C5: query never raises: whatever goes wrong in a backend call, in the
\* construction of a backend or in observe, it returns a Response.
C5_QueryNeverRaises ==
    \A t \in Threads : th[t].pc # "raised"

(***************************************************************************)
(* Properties of concurrent queries, checked under SpecConc.               *)
(***************************************************************************)
\* the positions of a thread inside state.observe
InObserve ==
    {"ar1_lock", "base_lock", "base_sm", "base_global", "sr_read",
     "sr_write", "bmod_srm", "bmod_sr", "ar1_step"}

\* the observe calls made so far, thread after thread
AllObserves == th["T1"].obs \o th["T2"].obs

\* the State left by the observe calls of C, each run uninterrupted, in the
\* order C[f[1]], C[f[2]], ...; k calls are still to run
RECURSIVE ApplyInOrder(_, _, _, _)
ApplyInOrder(s, C, f, k) ==
    IF k = 0 THEN s
    ELSE observe(alg,
                 ApplyInOrder(s, C, f, k - 1),
                 C[f[k]].server, C[f[k]].rtime, "NOERROR", C[f[k]].servers).st

Maps(s) == [SM |-> s.SM, SR |-> s.SR, SRM |-> s.SRM]

\* C6: under BIND and BMOD, whenever no observe is in progress, SM, SR and
\* SRM are what the observe calls made so far leave when they run one at a
\* time in some order.
C6_ObservesSerializable ==
    (alg \in {"bind", "bmod"} /\ \A t \in Threads : th[t].pc \notin InObserve)
    => \E f \in Bijections(Len(AllObserves)) :
          Maps(st) = Maps(ApplyInOrder(NewState(alg, config), AllObserves,
                                       f, Len(AllObserves)))

\* C7: neither ranked nor model_dump reads the State while an observe has
\* updated SM and the global mean and not yet the algorithm's own maps.
C7_NoHalfDoneObserveRead ==
    /\ \A t \in Threads : th[t].sawMid = {}
    /\ dump # <<>> => dump[1].mid = {}

\* C8: a thread holds the State lock only inside ranked and observe, never
\* during a backend call, so a thread waiting for its backend keeps no
\* other thread out of ranked or observe.
C8_LockOnlyInRankedAndObserve ==
    /\ lock.owner = None <=> lock.depth = 0
    /\ \A t \in Threads :
          /\ lock.owner = t => th[t].pc \in {"ranked_sort"} \cup InObserve
          /\ th[t].pc = "backend" => lock.owner # t

\* one thread waits for its backend while the other holds the lock
C8_OtherHoldsLockDuringBackend ==
    \E t, u \in Threads :
        /\ t # u
        /\ th[t].pc = "backend"
        /\ lock.owner = u

(***************************************************************************)
(* Properties of the State, checked under SpecState.                       *)
(***************************************************************************)
LastCall == last[1]
Called(op) == last # <<>> /\ LastCall.op = op

\* how many times server s occurs in the list S
Occurrences(S, s) == Cardinality({i \in 1..Len(S) : S[i] = s})

\* C9: ranked(S) returns a permutation of S, every server as many times as
\* in S, with rank non-decreasing along the returned list (for BIND, BMOD
\* and AR-1 the rank is that of the State at the call), and leaves the
\* caller's list and the State as they were.
C9_RankedIsSortedPermutation ==
    Called("ranked") =>
        /\ Len(LastCall.out) = Len(LastCall.servers)
        /\ \A s \in Servers :
              Occurrences(LastCall.out, s) = Occurrences(LastCall.servers, s)
        /\ \A i \in 1..(Len(LastCall.out) - 1) :
              RLe(LastCall.keys[i], LastCall.keys[i + 1])
        /\ alg # "base" =>
              \A i \in 1..Len(LastCall.out) :
                  LastCall.keys[i] = rank(alg, st, LastCall.out[i])
        /\ LastCall.arg = LastCall.servers
        /\ st = LastCall.pre

\* ranked put a list with a repeated server into another order, by ranks
\* that differ
C9_Reordered ==
    /\ Called("ranked")
    /\ alg # "base"
    /\ Len(LastCall.out) = 3
    /\ LastCall.out # LastCall.servers
    /\ \E s \in Servers : Occurrences(LastCall.servers, s) = 2
    /\ RLt(LastCall.keys[1], LastCall.keys[3])

\* C10: in every BIND state SR[s] >= 0, SR[s] = 0 for a server that was
\* never the selected server of an observe, and an observe whose candidate
\* list contains s but selected another server leaves SR[s] at exactly g
\* times its previous value.
C10_BindDiscount ==
    alg = "bind" =>
        \A s \in DOMAIN st.SR :
            /\ RLe(RZero, st.SR[s])
            /\ s \notin sel => st.SR[s] = RZero
            /\ (Called("observe") /\ s \in Range(LastCall.servers)
                    /\ s # LastCall.server)
               => st.SR[s] = RMul(Params.g, LastCall.pre.SR[s])

\* the weighted average a * old + (1 - a) * rtime of BIND, with a = 0 for
\* the first observation (old = 0)
Weighted(old, rtime) ==
    IF old = RZero THEN rtime
    ELSE RAdd(RMul(Params.a, old), RMul(RSub(ROne, Params.a), rtime))

\* C11: a BIND observe sets SR of the selected server to exactly rtime when
\* it was 0 before the call and to a * SR + (1 - a) * rtime otherwise.
C11_BindSelectedUpdate ==
    (alg = "bind" /\ Called("observe")) =>
        st.SR[LastCall.server] =
            Weighted(LastCall.pre.SR[LastCall.server], LastCall.rtime)

\* C12: after a BMOD observe, SR >= SRM for the selected server, and SRM of
\* the selected server is rtime if it was 0 and a * SRM + (1 - a) * rtime
\* otherwise.
C12_BmodSRAtLeastSRM ==
    (alg = "bmod" /\ Called("observe")) =>
        /\ RLe(st.SRM[LastCall.server], st.SR[LastCall.server])
        /\ st.SRM[LastCall.server] =
              Weighted(LastCall.pre.SRM[LastCall.server], LastCall.rtime)

\* a BMOD observe of a server seen before, where the value BIND computes
\* for SR is below the new SRM: the maximum decides
C12_MaxDecides ==
    /\ alg = "bmod"
    /\ Called("observe")
    /\ LastCall.pre.SRM[LastCall.server] # RZero
    /\ RLt(bind_observe(LastCall.pre, LastCall.server, LastCall.rtime,
                        LastCall.servers).SR[LastCall.server],
           st.SRM[LastCall.server])
    /\ st.SR[LastCall.server] = st.SRM[LastCall.server]

PreAR == LastCall.pre.SAR[LastCall.server]
PostAR == st.SAR[LastCall.server]

\* all response times the selected server has seen so far equal the one
\* observed now
SameAsBefore ==
    /\ PreAR.count >= 1
    /\ PreAR.mean = LastCall.rtime
    /\ PreAR.latest = LastCall.rtime
    /\ PreAR.stdev2 = RZero

\* C14: an observe that continues a run of identical response times of one
\* AR-1 server completes without error, with one more sample, stdev = 0,
\* alpha = alpha_min and mean equal to the observed value, which is also
\* the prediction P once it is computed.
C14_IdenticalRtimesSucceed ==
    (alg = "ar1" /\ Called("observe") /\ SameAsBefore) =>
        /\ ~LastCall.raised
        /\ PostAR.count = PreAR.count + 1
        /\ PostAR.stdev2 = RZero
        /\ PostAR.alpha = Params.alpha_min
        /\ PostAR.mean = LastCall.rtime
        /\ PostAR.count >= Params.p_count_min => PostAR.P = LastCall.rtime

\* C15: after an AR-1 observe the selected server has idle = 0 and every
\* other server has its idle increased by exactly 1, in the candidate list
\* or not.
C15_IdleCountsOtherQueries ==
    (alg = "ar1" /\ Called("observe")) =>
        \A s \in DOMAIN st.SAR :
            st.SAR[s].idle = IF s = LastCall.server THEN 0
                             ELSE LastCall.pre.SAR[s].idle + 1

IsIdle(s) == st.SAR[s].idle > Params.idle_max

NewDrc ==
    IF RLt(RMul(PreAR.stdev2, RSq(RInt(Params.drc_stdev_co))),
           RSq(RSub(LastCall.rtime, PreAR.mean)))
    THEN PreAR.drc + 1 ELSE 0

\* the condition under which ARStats.observe is to reset
ResetDue ==
    /\ PreAR.count > 0
    /\ NewDrc >= Params.drc_consec
    /\ PreAR.count >= Params.drc_count_min

\* the observe of a server that occurs once in the candidate list: one
\* call of ARStats.observe
OneARObserve ==
    /\ alg = "ar1"
    /\ Called("observe")
    /\ Occurrences(LastCall.servers, LastCall.server) = 1

\* C17 as stated: the statistics are reset exactly when the condition
\* holds, and when the observe that resets returns, count, mean, drc and P
\* are at their initial values and alpha = alpha_min.
C17_ResetLeavesInitialValues ==
    OneARObserve =>
        IF ResetDue
        THEN /\ PostAR.count = 0
             /\ PostAR.mean = RZero
             /\ PostAR.drc = 0
             /\ PostAR.P = RZero
             /\ PostAR.alpha = Params.alpha_min
        ELSE PostAR.count = PreAR.count + 1

\* C17 amended: the statistics are reset exactly when the condition holds;
\* the reset comes first and the observation is then recorded, so when the
\* observe returns the ARStats holds this one sample: count = 1,
\* mean = latest = rtime, drc = 0, P = 0, idle = 0 and alpha = alpha_min.
\* Without a reset count goes up by one and drc has its updated value.
C17_ResetThenFirstSample ==
    OneARObserve =>
        IF ResetDue
        THEN /\ PostAR.count = 1
             /\ PostAR.mean = LastCall.rtime
             /\ PostAR.latest = LastCall.rtime
             /\ PostAR.drc = 0
             /\ PostAR.P = RZero
             /\ PostAR.idle = 0
             /\ PostAR.stdev2 = RZero
             /\ PostAR.alpha = Params.alpha_min
             /\ ~LastCall.raised
        ELSE /\ PostAR.count = PreAR.count + 1
             /\ PostAR.drc = IF PreAR.count = 0 THEN PreAR.drc ELSE NewDrc

\* an observe that reset the statistics of a server with a history
C17_ResetHappened ==
    /\ OneARObserve
    /\ ResetDue
    /\ PreAR.count >= Params.drc_count_min
    /\ PostAR.count = 1

(***************************************************************************)
(* Properties of State.load, checked under SpecLoad.                       *)
(***************************************************************************)
MapFields == {"SM", "SR", "SRM", "SAR"}

\* the snapshot the last load was given
LoadData == LastCall.data[1]

\* the entry of server s in the per-server map m of field f, as a dump
\* holds it
Entry(f, m, s) == IF f = "SAR" THEN ARStats_dump(m[s]) ELSE m[s]

\* the servers the snapshot has in its map f
SnapshotKeys(f) == IF f \in DOMAIN LoadData THEN DOMAIN LoadData[f] ELSE {}

\* C18: load(data) keeps the current value of every field absent from data
\* and replaces only the fields present; per-server maps are merged by key,
\* the snapshot's value winning, so a server of the current state that the
\* snapshot lacks keeps its statistics (an empty snapshot changes nothing).
C18_LoadMergesSnapshot ==
    (Called("load") /\ ~LastCall.raised) =>
        /\ \A f \in {"count", "mean"} :
              st[f] = IF f \in DOMAIN LoadData THEN LoadData[f]
                      ELSE LastCall.pre[f]
        /\ \A f \in Fields(alg) \cap MapFields :
              \A s \in (DOMAIN LastCall.pre[f]) \cup SnapshotKeys(f) :
                 /\ s \in DOMAIN st[f]
                 /\ Entry(f, st[f], s) =
                       IF s \in SnapshotKeys(f) THEN LoadData[f][s]
                       ELSE Entry(f, LastCall.pre[f], s)

\* C19: after any add, observe and load on the State of a Resolver, every
\* server of the Config has an entry in every per-server map of the
\* algorithm, and no call removes a key from a per-server map.
C19_ServersKeptInEveryMap ==
    \A f \in Fields(alg) \cap MapFields :
        /\ \A i \in 1..Len(config.servers) : config.servers[i] \in DOMAIN st[f]
        /\ last # <<>> => (DOMAIN LastCall.pre[f]) \subseteq DOMAIN st[f]

\* the last call was state.load(state.model_dump())
Reloaded ==
    /\ Called("load")
    /\ LoadData = model_dump(alg, LastCall.pre)

\* C20: state.load(state.model_dump()) leaves the global count and mean,
\* every SM entry, every SR and SRM value and every field of every ARStats
\* unchanged, adds no entry to a State whose maps have the same servers,
\* and every ARStats refers to the State's Params afterwards.
C20_ReloadKeepsNumbers ==
    Reloaded =>
        /\ st.count = LastCall.pre.count
        /\ st.mean = LastCall.pre.mean
        /\ \A f \in Fields(alg) \cap MapFields :
              /\ \A s \in DOMAIN LastCall.pre[f] :
                    s \in DOMAIN st[f] /\ st[f][s] = LastCall.pre[f][s]
              /\ KnownServers(LastCall.pre) = DOMAIN LastCall.pre.SM
                    => DOMAIN st[f] = DOMAIN LastCall.pre[f]
        /\ \A s \in DOMAIN st.SAR : st.SAR[s].params = "state"

\* an AR-1 State with observations reloaded from its own dump
C20_ReloadedUsedState ==
    /\ Reloaded
    /\ alg = "ar1"
    /\ LastCall.pre.count > 0
    /\ \E s \in DOMAIN st.SAR : st.SAR[s].count > 0 /\ st.SAR[s].mean # RZero

SelectArg == LastCall.arg
SelectOut == LastCall.out[1]

\* what select returns for a rule, and for no rule
RuleRoute(rule) == [servers |-> rule.servers, tag |-> rule.tag[1]]
DefaultRoute == [servers |-> config.servers, tag |-> "DFLT"]

\* the rules of the Config that match the question name
Matching ==
    {i \in 1..Len(config.rules) : DomainRule_matches(config.rules[i], SelectArg)}

\* rule i has a longer domain than rule j, or an equally long one and was
\* configured before it
Before(i, j) ==
    \/ Len(config.rules[i].domain) > Len(config.rules[j].domain)
    \/ /\ Len(config.rules[i].domain) = Len(config.rules[j].domain)
       /\ config.rules[i].pos < config.rules[j].pos

\* the rules of the Config are those of the text: example.com -> [A] and
\* foo.example.com -> [B]
ExampleRules ==
    {<<config.rules[i].domain, config.rules[i].exclude, config.rules[i].servers>> :
        i \in 1..Len(config.rules)}
      = {<<N_example, <<>>, <<"S2">>>>, <<N_foo_example, <<>>, <<"S2", "S1">>>>}

Trail(qname) ==
    IF qname # <<>> /\ qname[Len(qname)] = "."
    THEN SubSeq(qname, 1, Len(qname) - 1) ELSE qname

\* x ends with y
EndsWith(x, y) ==
    Len(y) =< Len(x) /\ SubSeq(x, Len(x) - Len(y) + 1, Len(x)) = y

\* x equals the domain d or ends with the whole-label suffix '.d'
Covers2(d, x) == x = d \/ EndsWith(x, <<".">> \o d)

\* the same for a question name, compared case-insensitively and with an
\* optional trailing dot
Covers(d, qname) == Covers2(lower(d), lower(Trail(qname)))

\* the condition the text gives for rule.matches(qname)
Routes(rule, qname) ==
    /\ Covers(rule.domain, qname)
    /\ \A i \in 1..Len(rule.exclude) : ~Covers(rule.exclude[i], qname)

\* rule i is the most specific rule whose domain covers the name
MostSpecific(i) ==
    /\ Covers(config.rules[i].domain, SelectArg)
    /\ \A j \in 1..(i - 1) : ~Covers(config.rules[j].domain, SelectArg)

\* no rule between i and j routes the name
NextRouting(i, j) ==
    /\ i < j
    /\ Routes(config.rules[j], SelectArg)
    /\ \A k \in (i + 1)..(j - 1) : ~Routes(config.rules[k], SelectArg)

\* C23: rule.matches(qname) is true exactly when qname, compared
\* case-insensitively and with an optional trailing dot, equals the domain
\* or ends with the whole-label suffix '.domain' and the same does not hold
\* for any element of exclude; a qname excluded by the most specific rule
\* is routed by the next less specific matching rule, or by the default.
C23_MatchesWholeLabels ==
    Called("select") =>
        /\ \A i \in 1..Len(config.rules) :
              DomainRule_matches(config.rules[i], SelectArg)
                 <=> Routes(config.rules[i], SelectArg)
        /\ \A i \in 1..Len(config.rules) :
              (MostSpecific(i) /\ ~Routes(config.rules[i], SelectArg)) =>
                 /\ \A j \in 1..Len(config.rules) :
                       NextRouting(i, j) => SelectOut = RuleRoute(config.rules[j])
                 /\ (\A j \in (i + 1)..Len(config.rules) :
                        ~Routes(config.rules[j], SelectArg))
                       => SelectOut = DefaultRoute

\* a name in upper case with a trailing dot, excluded by the most specific
\* rule and routed by a less specific one
C23_ExcludedGoesToNextRule ==
    /\ Called("select")
    /\ SelectArg # lower(SelectArg)
    /\ SelectArg[Len(SelectArg)] = "."
    /\ Len(config.rules) = 2
    /\ MostSpecific(1)
    /\ ~DomainRule_matches(config.rules[1], SelectArg)
    /\ Len(config.rules[2].domain) < Len(config.rules[1].domain)
    /\ SelectOut = RuleRoute(config.rules[2])
    /\ SelectOut # DefaultRoute

(***************************************************************************)
(* Properties of the client command, checked under SpecCmd.                *)
(***************************************************************************)
\* no query is under way
Quiet == \A t \in Threads : cmd.loops[t].pc = "idle"

\* C24: for an anomaly with a finite limit, each query issued while the
\* anomaly is active decrements its limit by exactly 1: once the queries
\* have returned, the decrements applied to the anomaly are as many as the
\* queries issued while it was active, queries that ended in an error
\* included.
C24_DecrementsMatchQueries ==
    Quiet => \A i \in AnomalyIds : cmd.decs[i] = cmd.issued[i]

\* C26: across a reload no statistics are lost: after the reload the new
\* Resolver's State has, for every server, every observation made so far on
\* that server, those of the queries that were in flight while the
\* snapshot was taken and loaded included.
C26_NoObservationLost ==
    cmd.reloads > 0 =>
        \A s \in DOMAIN st.SM : st.SM[s].count = cmd.seen[s]

(***************************************************************************)
(* Properties of State.add, checked under SpecState.                       *)
(***************************************************************************)
\* the entries add gives a server that has none
FreshEntries(s) ==
    /\ st.SM[s] = RunningMean
    /\ HasSR(alg) => st.SR[s] = RZero
    /\ HasSRM(alg) => st.SRM[s] = RZero
    /\ HasSAR(alg) =>
          st.SAR[s] = [ARStats EXCEPT !.alpha = Params.alpha_min,
                                      !.params = "state"]

\* C25: the first add of a server creates default entries in every
\* per-server map (SM count 0 and mean 0, SR 0, SRM 0, ARStats reset with
\* alpha = alpha_min); an add of a server that has entries changes nothing,
\* whatever was observed in between.
C25_AddIdempotent ==
    Called("add") =>
        IF LastCall.server \in DOMAIN LastCall.pre.SM
        THEN st = LastCall.pre
        ELSE /\ FreshEntries(LastCall.server)
             /\ st.count = LastCall.pre.count /\ st.mean = LastCall.pre.mean
             /\ \A f \in Fields(alg) \cap MapFields :
                   /\ DOMAIN st[f] = (DOMAIN LastCall.pre[f]) \cup {LastCall.server}
                   /\ \A x \in DOMAIN LastCall.pre[f] : st[f][x] = LastCall.pre[f][x]

\* add of a server that has answered queries since its first add
C25_AddAfterObserve ==
    /\ Called("add")
    /\ LastCall.server \in DOMAIN LastCall.pre.SM
    /\ LastCall.pre.SM[LastCall.server].count > 0

(***************************************************************************)
(* The passes of Resolver.query, checked under Spec.                       *)
(***************************************************************************)
\* thread t goes to state.ranked in this step
Reranks(t) == th[t].pc # "ranked" /\ th'[t].pc = "ranked"

\* the pass of thread t is used up: its last server has answered SERVFAIL
\* and the retry budget is not spent
PassExhausted(t) ==
    /\ th[t].pc = "decide"
    /\ th[t].idx = Len(th[t].servers)
    /\ th[t].rep.code = "SERVFAIL"
    /\ Len(th[t].failed) < config.retries_max

\* thread t goes on to another attempt of the same pass in this step
NextAttempt(t) == th[t].pc = "decide" /\ th'[t].pc = "attempt"

\* one step of a query keeps to the ranked list of its pass
PassOrder(t) ==
    /\ Reranks(t) =>
          \/ th[t].pc \in {"idle", "returned", "raised"}
          \/ /\ PassExhausted(t)
             /\ th'[t].servers = th[t].servers
             /\ Range(th[t].servers) = Range(select(config).servers)
    /\ NextAttempt(t) =>
          /\ th'[t].servers = th[t].servers
          /\ th[t].idx < Len(th[t].servers)
          /\ th'[t].idx = th[t].idx + 1
          /\ th'[t].server = th[t].servers[th[t].idx + 1]
          /\ th[t].rep.code = "SERVFAIL"
    /\ th[t].pc \in {"attempt", "backend", "decide"} /\ th'[t].pc # "ranked"
          => th'[t].servers = th[t].servers

\* C28: within one pass the attempts follow the ranked list computed at the
\* start of the pass, with no ranking between attempts; the candidates are
\* ranked again only when every server of the pass has answered SERVFAIL
\* and retry budget remains, and the new pass ranks the same candidates.
C28_PassFollowsRankedList == [][\A t \in Threads : PassOrder(t)]_vars

\* a query over two different servers in its second pass: the server it
\* attempts has failed in the first pass already
C28_SecondPass ==
    \E t \in Threads :
        /\ th[t].pc = "backend"
        /\ Len(th[t].servers) = 2
        /\ th[t].servers[1] # th[t].servers[2]
        /\ Len(th[t].failed) >= 2
        /\ \E i \in 1..Len(th[t].failed) : th[t].failed[i] = th[t].server

(***************************************************************************)
(* Properties of RunningVariance, checked under SpecVariance.              *)
(***************************************************************************)
\* the sum of a sequence of values
RECURSIVE Sum(_)
Sum(xs) == IF xs = <<>> THEN RZero ELSE RAdd(Head(xs), Sum(Tail(xs)))

\* the arithmetic mean of a non-empty sequence of values
Mean(xs) == RDiv(Sum(xs), RInt(Len(xs)))

\* the sum of the squared distances of the values from m
SquaredDeviations(xs, m) == Sum([i \in 1..Len(xs) |-> RSq(RSub(xs[i], m))])

\* the sample variance of a sequence of two values or more
SampleVariance(xs) ==
    RDiv(SquaredDeviations(xs, Mean(xs)), RInt(Len(xs) - 1))

\* the statistics an object must hold after the values xs
Estimates(obj, xs) ==
    /\ obj.count = Len(xs)
    /\ obj.mean = IF xs = <<>> THEN RZero ELSE Mean(xs)
    /\ obj.variance = IF Len(xs) < 2 THEN RZero ELSE SampleVariance(xs)
    /\ obj.stdev2 = obj.variance

\* C27: after observe was called with x1..xn on a default RunningVariance,
\* count = n, mean is the arithmetic mean, and variance is the sum of the
\* squared deviations from the mean over n - 1 for n >= 2 (stdev squared is
\* the variance); mean = 0 for count = 0, variance = stdev = 0 for count < 2.
C27_MeanAndVariance == rv # NoVariance => Estimates(rv[1].obj, rv[1].xs)

\* three values that are not all the same have been observed
C27_SpreadValues ==
    /\ rv # NoVariance
    /\ Len(rv[1].xs) >= 3
    /\ rv[1].xs[1] # rv[1].xs[2]
    /\ rv[1].xs[2] # rv[1].xs[3]
    /\ rv[1].obj.variance # RZero

(***************************************************************************)
(* Starvation under BIND and BMOD, checked under SpecHeadFair.             *)
(***************************************************************************)
\* X is a candidate that was not the selected server of the last query,
\* and the run has queries left for every candidate and two more
Waiting(X) ==
    /\ X \in Range(config.servers)
    /\ Called("observe") => LastCall.server # X
    /\ nops + Len(config.servers) + 2 <= MaxHead

\* X was the selected server of the last query
Selected(X) == Called("observe") /\ LastCall.server = X

\* C29: under BIND and BMOD, with one thread, the same candidates for every
\* query, the head of ranked attempted first and positive bounded response
\* times, every candidate that a query passed over is selected again.
C29_NoStarvation == \A X \in Servers : [](Waiting(X) => <>Selected(X))

\* a candidate is selected after the other one was selected twice in a row
\* while its SR was discounted
C29_SelectedAfterDiscount ==
    /\ Called("observe")
    /\ Len(config.servers) = 2
    /\ nops >= 4
    /\ LastCall.pre.SR[LastCall.server] # RZero
    /\ \E Y \in Range(config.servers) :
          /\ Y # LastCall.server
          /\ RLt(LastCall.pre.SR[LastCall.server], LastCall.pre.SR[Y])
          /\ LastCall.pre.SM[Y].count >= 2

(***************************************************************************)
(* Idle servers under AR-1, checked under SpecIdle.                        *)
(***************************************************************************)
\* the candidates whose idle count had reached idle_max before the last
\* query
ReachedIdleMax ==
    {X \in Range(config.servers) :
        LastCall.pre.SAR[X].idle >= Params.idle_max}

\* no candidate's idle count exceeds idle_max + |candidates|
IdleBounded ==
    \A X \in Range(config.servers) :
        st.SAR[X].idle <= Params.idle_max + Len(config.servers)

\* C30: under AR-1, with one thread and the same candidates for every
\* query, a candidate whose idle count has reached idle_max is selected by
\* the next query, and no idle count exceeds idle_max + |candidates|.
C30_IdleServerSelectedNext ==
    /\ IdleBounded
    /\ Called("observe") => \A X \in ReachedIdleMax : LastCall.server = X

(***************************************************************************)
(* Properties of the AR-1 prediction, checked under SpecAR1.               *)
(***************************************************************************)
\* formula (4): alpha^(idle+1) * latest + (1 - alpha^(idle+1)) * mean
Formula4(ar) ==
    RAdd(RMul(RPow(ar.alpha, ar.idle + 1), ar.latest),
         RMul(RSub(ROne, RPow(ar.alpha, ar.idle + 1)), ar.mean))

\* the prediction of server s after the last observe is what an observe may
\* leave: untouched outside the candidates, formula (4) for a candidate
\* with enough samples, and untouched or 0 (a reset) for one with too few
PredictionStep(s) ==
    /\ s \notin Range(LastCall.servers)
          => st.SAR[s].P = LastCall.pre.SAR[s].P
    /\ (st.SAR[s].P # LastCall.pre.SAR[s].P
           /\ st.SAR[s].count < Params.p_count_min) => st.SAR[s].P = RZero
    /\ (st.SAR[s].P # LastCall.pre.SAR[s].P
           /\ st.SAR[s].count >= Params.p_count_min)
          => st.SAR[s].P = Formula4(st.SAR[s])
    /\ (~LastCall.raised /\ s \in Range(LastCall.servers)
           /\ st.SAR[s].count >= Params.p_count_min)
          => st.SAR[s].P = Formula4(st.SAR[s])

ObserveWithCode(code) ==
    observe(alg, LastCall.pre, LastCall.server, LastCall.rtime, code,
            LastCall.servers)

C40_RankIsPure ==
    Called("ranked") =>
        /\ st = LastCall.pre
        /\ \A i, j \in 1..Len(LastCall.out) :
              LastCall.out[i] = LastCall.out[j]
                 => LastCall.keys[i] = LastCall.keys[j]

\* the per-server maps of the algorithm's State
ServerMaps == Fields(alg) \cap MapFields

\* the ARStats ar with the idle count and the prediction of the ARStats old
WithIdleAndP(ar, old) == [ar EXCEPT !.idle = old.idle, !.P = old.P]

\* what observe may change for a candidate s that was not selected: its SR
\* and, of its ARStats, idle and P
NotSelectedFrame(s) ==
    /\ st.SM[s] = LastCall.pre.SM[s]
    /\ HasSRM(alg) => st.SRM[s] = LastCall.pre.SRM[s]
    /\ HasSAR(alg) =>
          WithIdleAndP(st.SAR[s], LastCall.pre.SAR[s]) = LastCall.pre.SAR[s]

RECURSIVE SumCounts(_, _)
SumCountsRest(m, S, s) == m[s].count + SumCounts(m, S \ {s})

SumCounts(m, S) ==
    IF S = {} THEN 0 ELSE SumCountsRest(m, S, CHOOSE s \in S : TRUE)

\* the global count is the number of observations the servers have
CountIsSum == st.count = SumCounts(st.SM, DOMAIN st.SM)

\* C37: in every state reached from an empty State by add and observe the
\* global count equals the sum of SM[s].count over all servers, the total
\* number of observations, and for AR-1 SAR[s].count <= SM[s].count for
\* every server.
C37_CountsAgree ==
    /\ CountIsSum
    /\ alg = "ar1" => \A s \in DOMAIN st.SAR : st.SAR[s].count =< st.SM[s].count


\* an anomaly that still applies: its limit is absent or positive
Live(a) == a.limit = <<>> \/ a.limit[1] > 0

\* the place of the first anomaly of the queue q that still applies, 0 when
\* there is none
FirstLive(q) ==
    IF \E i \in 1..Len(q) : Live(q[i])
    THEN CHOOSE i \in 1..Len(q) :
            Live(q[i]) /\ \A j \in 1..(i - 1) : ~Live(q[j])
    ELSE 0

\* the call c of prep_anomaly kept the anomaly that was active
Kept(c) == c.before # <<>> /\ c.after = c.before /\ c.left = c.queue

\* the call c of prep_anomaly went to the queue: the first anomaly that
\* still applies is active and the queue is what follows it, or nothing is
\* active, the queue is empty and no delayer is installed
Replaced(c) ==
    IF FirstLive(c.queue) = 0
    THEN c.after = <<>> /\ c.left = <<>> /\ c.delayers = <<>>
    ELSE /\ c.after = <<c.queue[FirstLive(c.queue)]>>
         /\ c.left = SubSeq(c.queue, FirstLive(c.queue) + 1, Len(c.queue))
         /\ c.delayers = c.queue[FirstLive(c.queue)].delayers

\* C32: prep_anomaly keeps the active anomaly exactly when there is one
\* and its limit is absent or positive; otherwise the first queued anomaly
\* that still applies becomes active, the exhausted ones before it are
\* dropped, and with none left nothing is active and resolver.delayers is
\* empty.  The Anomaly objects become active in the order they were
\* configured, none twice, and one without limit stays active.
C32_PrepAnomaly ==
    /\ (cmd.prep[1].before # <<>> /\ Live(cmd.prep[1].before[1]))
          <=> Kept(cmd.prep[1])
    /\ ~Kept(cmd.prep[1]) => Replaced(cmd.prep[1])
    /\ \A i, j \in 1..Len(cmd.activated) :
          i < j => cmd.activated[i].id < cmd.activated[j].id
    /\ \A i \in 1..Len(cmd.activated) :
          cmd.activated[i].limit = <<>>
             => /\ i = Len(cmd.activated)
                /\ cmd.anomaly # <<>>
                /\ cmd.anomaly[1].id = cmd.activated[i].id

\* prep_anomaly found the active anomaly exhausted, dropped an exhausted
\* one of the queue and made one without limit active
C32_ExhaustedSkipped ==
    /\ cmd.prep[1].before # <<>>
    /\ ~Live(cmd.prep[1].before[1])
    /\ Len(cmd.prep[1].queue) = Len(cmd.prep[1].left) + 2
    /\ cmd.prep[1].after # <<>>
    /\ cmd.prep[1].after[1].limit = <<>>
    /\ cmd.prep[1].delayers = cmd.prep[1].after[1].delayers

\* the place in the config file of the Anomaly object id
FilePlace(id) == ((id - 1) % MaxAnomalies) + 1

\* C33: no more queries are issued with the delayers of an anomaly
\* installed than its limit says, and no limit is negative
C33_LimitBoundsQueries ==
    /\ \A id \in AnomalyIds :
          (FilePlace(id) =< Len(cmd.file) /\ cmd.file[FilePlace(id)] # <<>>)
             => cmd.issued[id] =< cmd.file[FilePlace(id)][1]
    /\ (cmd.anomaly # <<>> /\ cmd.anomaly[1].limit # <<>>)
          => cmd.anomaly[1].limit[1] >= 0

\* C36: after a reload the live Resolver is of the algorithm the config
\* file names, unless the algorithm was given on the command line
C36_ReloadAppliesAlgorithm ==
    (cmd.hup # <<>> /\ ~cmd.explicit) => alg = cmd.hup[1]

\* C34: the lifetime handed to the backend is not negative, the applied
\* delay plus that lifetime lies between timeout_min and timeout_max, and
\* the applied delay is at most the clamped lifetime
C34_LifetimeWithinTimeouts ==
    Called("attempt") =>
        /\ RLe(RZero, LastCall.lifetime)
        /\ RLe(config.timeout_min, RAdd(LastCall.delay, LastCall.lifetime))
        /\ RLe(RAdd(LastCall.delay, LastCall.lifetime), config.timeout_max)
        /\ RLe(LastCall.delay, clamped_lifetime(config))

\* the delayers of resolver.delayers whose pattern matches the server
Matches(server) ==
    {i \in 1..Len(cmd.delayers) : re_match(cmd.delayers[i].pattern, server)}

\* the delay of the first of them, 0 when there is none
FirstDelay(server) ==
    IF Matches(server) = {} THEN RZero
    ELSE cmd.delayers[CHOOSE i \in Matches(server) :
                         \A j \in Matches(server) : i =< j].delay

\* C35 as stated: the observed rtime is the backend's rtime plus the time
\* the call took plus the delay of the first matching delayer, and so at
\* least the applied delay
C35_RtimeAddsDelayerDelay ==
    Called("attempt") =>
        /\ LastCall.rtime = RAdd(RAdd(LastCall.brtime, LastCall.elapsed),
                                 FirstDelay(LastCall.server))
        /\ RLe(LastCall.delay, LastCall.rtime)

\* C35: the observed rtime is the backend's rtime plus the time the call
\* took plus the delay of the first matching delayer cut to the clamped
\* lifetime, and so at least the applied delay; it is the rtime observe
\* recorded
C35_RtimeAddsAppliedDelay ==
    Called("attempt") =>
        /\ LastCall.rtime =
              RAdd(RAdd(LastCall.brtime, LastCall.elapsed),
                   RMin(FirstDelay(LastCall.server), clamped_lifetime(config)))
        /\ LastCall.delay =
              RMin(FirstDelay(LastCall.server), clamped_lifetime(config))
        /\ RLe(LastCall.delay, LastCall.rtime)
        /\ st = observe(alg, LastCall.pre, LastCall.server, LastCall.rtime,
                        LastCall.code, LastCall.servers).st

\* an attempt whose first matching delayer, not the last one, asks for
\* more than the clamped lifetime
C35_DelayCutToLifetime ==
    /\ Called("attempt")
    /\ Cardinality(Matches(LastCall.server)) = 2
    /\ RLt(clamped_lifetime(config), FirstDelay(LastCall.server))
    /\ cmd.delayers[2].delay # cmd.delayers[1].delay
    /\ LastCall.delay = clamped_lifetime(config)
    /\ LastCall.lifetime = RZero

=============================================================================
